---------------------------- MODULE Spec2Model ----------------------------
(***************************************************************************)
(* Model of process_drive_offline (src/engagement_gauge_dev.py), the       *)
(* per-drive analytics loop of opDriveStats: the engagement state machine, *)
(* the odometer tracker and the steering-intervention detector, fed by a   *)
(* stream of log events split into segments.                               *)
(*                                                                         *)
(* Units.  Time is counted in whole seconds (the source counts             *)
(* nanoseconds: 1 unit = 10^9 ns), odometer readings in steps of 0.05 km   *)
(* (1.0 km = 20 units), torque in steps of 0.1 (1.5 = 15 units), speed in   *)
(* steps of 0.1 m/s, so that a bucket distance, speed times seconds, is in  *)
(* steps of 0.1 m.  Percentages and rates, rounded to two decimals in the   *)
(* source, are counted in hundredths.  An                                   *)
(* optional value (None in the source) is the empty sequence, a present    *)
(* value v is <<v>>.  A filtered torque value, a mean, is kept exactly as  *)
(* the pair <<sum, count>>.                                                *)
(***************************************************************************)
EXTENDS Integers, Sequences, FiniteSets

VARIABLES
    pc,                        \* "idle": at the head of the segment loop; "seg": inside the event loop; "done"
    segIdx,                    \* number of segments taken from rlog_files_sorted so far
    clock,                     \* logMonoTime of the last event read
    drive_date,                \* date in the drive name as yyyymmdd, <<>> for a name that does not parse
    drive_stats,               \* the drive accumulator
    engaged_distance,
    last_odo,
    currently_engaged,
    engagement_state_changes,
    interventions,
    total_steer_interventions,
    last_engagement_state,
    pending_reengagement,
    seg,                       \* the segment-scoped variables
    result,                    \* the finalized statistics, <<>> before the end of the loop
    ctrlHist,                  \* history: the `active` values of the drive's controlsState samples
    odoHist,                   \* history: the drive's odometer readings
    lastChange,                \* history: time and segment of the drive's last engagement transition
    lastEntry,                 \* history: time and segment of the drive's last Idle->Intervening entry
    canCount,                  \* history: CAN frames of the drive that carried a torque value
    carHist,                   \* history: the drive's carState and carParams events,
                               \* the engagement state at the last carState sample
    call,                      \* a call of one of the pure functions: its arguments and its value
    ev                         \* history: the event just processed

vars == <<pc, segIdx, clock, drive_date, drive_stats, engaged_distance,
          last_odo, currently_engaged, engagement_state_changes, interventions,
          total_steer_interventions, last_engagement_state, pending_reengagement,
          seg, result, ctrlHist, odoHist, lastChange, lastEntry, canCount, carHist, call, ev>>

-----------------------------------------------------------------------------
(* Program constants *)

ENGAGEMENT_BUFFER_NS == 3
INTERVENTION_TIMEOUT_NS == 10
STEER_INTERVENTION_THRESHOLD == 15
STEER_RESOLUTION_THRESHOLD == 3
ODO_MAX_INCREMENT == 20
WINDOW_SIZE == 10
CUTOVER_DATE == 20250707
VEGO_MOVING_THRESHOLD == 10

(* Bounds of the model *)

MaxSegments == 2
MaxTime == 8
MaxCtrl == 5
MaxOdo == 4
MaxCtrlOdo == 2
MaxCan == 4
MaxTimeSteer == 22
MaxCtrlSteer == 3
MaxTimeRates == 11
MaxCtrlRates == 3
MaxOdoRates == 2
MaxCanRates == 2
MaxSegmentsRates == 1
MaxTimeSkip == 4
MaxCtrlSkip == 3
MaxOdoSkip == 2
MaxTimeCar == 2
MaxCtrlCar == 2
MaxCar == 2
MaxParams == 2
MaxList == 3

None == <<>>
Some(v) == <<v>>

\* gaps between consecutive timestamps, and the values the decoded signals take
Dts == {0, 1, 4}
DtsOdo == {0}
DtsSteer == {0, 11}
OdoVals == {2000, 2001, 2030}
TorqueDriver == {-60, 60}
TorqueMotor == {0}
DtsRates == {0, 11}
DtsSkip == {0, 2}
OdoRates == {2000, 2014}
TorqueRates == {60}
DtsCar == {0, 2}
Speeds == {-10, 0, 200, 300}
Opls == {None, Some(FALSE), Some(TRUE)}
SegIndices == {0, 2, 9, 10, 11}
Streams == {"unreadable", "complete", "truncated"}
StreamsSteer == {"complete"}
StreamsSkip == {"unreadable", "complete"}
DriveDates == {None, Some(20250706), Some(20250707)}

-----------------------------------------------------------------------------
(* The order of the segments.  A path is the sequence of the parts of its   *)
(* directory name between the "--" separators, a part a sequence of         *)
(* characters.                                                              *)

DigitChars == <<"0", "1", "2", "3", "4", "5", "6", "7", "8", "9">>

IsDigit(c) == \E k \in 1..10 : DigitChars[k] = c
DigitValue(c) == (CHOOSE k \in 1..10 : DigitChars[k] = c) - 1

\* the decimal numeral of n, as the recorder writes it into the directory name
RECURSIVE Numeral(_)
Numeral(n) ==
    IF n < 10 THEN <<DigitChars[n + 1]>>
    ELSE Append(Numeral(n \div 10), DigitChars[(n % 10) + 1])

\* the directory of segment n of a drive
SegmentDir(n) == << <<"d">>, <<"t">>, Numeral(n) >>

\* int(s): the value of a decimal numeral, <<>> where int raises ValueError
RECURSIVE DigitsValue(_)
DigitsValue(chars) ==
    IF chars = <<>> THEN 0
    ELSE 10 * DigitsValue(SubSeq(chars, 1, Len(chars) - 1)) + DigitValue(chars[Len(chars)])

ParseInt(chars) ==
    IF chars # <<>> /\ \A i \in 1..Len(chars) : IsDigit(chars[i])
    THEN Some(DigitsValue(chars)) ELSE None

extract_segment_number_first_digit(rlog_path) ==
    IF Len(rlog_path) >= 2 THEN DigitValue(rlog_path[Len(rlog_path)][1]) ELSE 0

\* `int(parts[-1])` when the name has a "--", 0 when it has none or when the
\* last part is no numeral
extract_segment_number(rlog_path) ==
    IF Len(rlog_path) >= 2
    THEN LET n == ParseInt(rlog_path[Len(rlog_path)])
         IN IF n # None THEN n[1] ELSE 0
    ELSE 0

\* sorted(rlog_files, key=extract_segment_number): a stable sort, each element
\* placed behind those whose key is not greater
RECURSIVE sorted(_)
sorted(files) ==
    IF files = <<>> THEN <<>>
    ELSE LET x == files[Len(files)]
             q == sorted(SubSeq(files, 1, Len(files) - 1))
             n == Cardinality({i \in 1..Len(q) :
                                 extract_segment_number(q[i]) <= extract_segment_number(x)})
         IN SubSeq(q, 1, n) \o <<x>> \o SubSeq(q, n + 1, Len(q))

-----------------------------------------------------------------------------
(* The per-drive capability flag *)

\* `drive_date >= datetime(2025, 7, 7)`, False for a drive name that
\* parse_drive_timestamp rejects
EnableInterventionCheck(date) == date # None /\ date[1] >= CUTOVER_DATE

\* recomputed from the drive name at the top of every loop iteration
enable_intervention_check == EnableInterventionCheck(drive_date)

-----------------------------------------------------------------------------
(* The engagement state machine: one controlsState sample *)

StateChangedCountFirst(last, cur) == last = None \/ last[1] # cur

\* `last_engagement_state is not None and current_state != last_engagement_state`
StateChanged(last, cur) == last # None /\ last[1] # cur

StateChangesAfterAssign(n, changed) == IF changed THEN 1 ELSE n

\* `engagement_state_changes += 1` inside the change branch
StateChangesAfter(n, changed) == IF changed THEN n + 1 ELSE n

CycleUpdateEveryEngage(changed, cur, n, pending) ==
    IF ~changed THEN [interventions |-> n, pending |-> pending]
    ELSE IF cur = FALSE THEN [interventions |-> n, pending |-> TRUE]
    ELSE [interventions |-> n + 1, pending |-> FALSE]

\* the ON->OFF / OFF->ON branches: a re-engagement with the pending flag set
\* completes one cycle, the first engagement of the drive counts nothing
CycleUpdate(changed, cur, n, pending) ==
    IF ~changed THEN [interventions |-> n, pending |-> pending]
    ELSE IF cur = FALSE THEN [interventions |-> n, pending |-> TRUE]
    ELSE IF pending THEN [interventions |-> n + 1, pending |-> FALSE]
    ELSE [interventions |-> n, pending |-> pending]

BufferElapsedAtOnce(now, t) == now - t >= 0

\* `current_time - last_engagement_change_time > ENGAGEMENT_BUFFER_NS`
BufferElapsed(now, t) == now - t > ENGAGEMENT_BUFFER_NS

StartTimeAfterEvery(st, now) == now

\* `if start_time == -1: start_time = msg.logMonoTime`
StartTimeAfter(st, now) == IF st = -1 THEN now ELSE st

SegmentInitTimeNotZero(stream) ==
    [ stream |-> stream,
      last_engagement_change_time |-> None,
      engagement_stable |-> TRUE,
      steer_intervention_count |-> 0,
      filter_mdps |-> <<>>,
      filter_eps |-> <<>>,
      filtered_mdps |-> None,
      filtered_eps |-> None,
      total_time |-> 1,
      active_time |-> 0,
      start_time |-> -1,
      last_active_time |-> -1,
      in_intervention |-> FALSE,
      last_steer_intervention_time |-> 0,
      drive_time |-> 0,
      drive_time_active |-> 0,
      cruise_press_time |-> 0,
      prev_moving |-> FALSE,
      prev_engaged |-> FALSE,
      last_carstate_time |-> None,
      last_cruise_state |-> 0,
      last_cruise_time |-> None,
      prev_speed |-> 0 ]

\* the segment-scoped variables as set at the top of each loop iteration
SegmentInit(stream) ==
    [ stream |-> stream,
      last_engagement_change_time |-> None,
      engagement_stable |-> TRUE,
      steer_intervention_count |-> 0,
      filter_mdps |-> <<>>,
      filter_eps |-> <<>>,
      filtered_mdps |-> None,
      filtered_eps |-> None,
      total_time |-> 0,
      active_time |-> 0,
      start_time |-> -1,
      last_active_time |-> -1,
      in_intervention |-> FALSE,
      last_steer_intervention_time |-> 0,
      drive_time |-> 0,
      drive_time_active |-> 0,
      cruise_press_time |-> 0,
      prev_moving |-> FALSE,
      prev_engaged |-> FALSE,
      last_carstate_time |-> None,
      last_cruise_state |-> 0,
      last_cruise_time |-> None,
      prev_speed |-> 0 ]

NoEvent == [kind |-> "none", now |-> 0, changed |-> FALSE, odo |-> None,
            evaluated |-> FALSE, cls |-> "none", cruise |-> None]

-----------------------------------------------------------------------------
(* The odometer tracker *)

IncrementAcceptedNoUpperLimit(d) == 0 < d

\* `0 < distance_increment < 1.0`
IncrementAccepted(d) == 0 < d /\ d < ODO_MAX_INCREMENT

EngagedDistanceAfterAnyState(dist, d, engaged) ==
    IF IncrementAccepted(d) THEN dist + d ELSE dist

\* `if 0 < distance_increment < 1.0 and currently_engaged: engaged_distance += ...`
EngagedDistanceAfter(dist, d, engaged) ==
    IF IncrementAccepted(d) /\ engaged THEN dist + d ELSE dist

\* `last_odo = odo_val`, assigned whether or not the increment was accepted
LastOdoAfter(last, odo_val, d) == Some(odo_val)

-----------------------------------------------------------------------------
(* The moving-average filters and the steering-intervention detector *)

RECURSIVE SeqSum(_)
SeqSum(q) == IF q = <<>> THEN 0 ELSE Head(q) + SeqSum(Tail(q))

\* nothing is evicted
FilterValuesKeepAll(values, val) == Append(values, val)

\* MovingAverageFilter.update: append, evict the oldest beyond the window
FilterValues(values, val) ==
    LET a == Append(values, val) IN IF Len(a) > WINDOW_SIZE THEN Tail(a) ELSE a

\* `sum(self.values) / len(self.values)`, kept as <<sum, count>>
FilterMean(values) == <<SeqSum(values), Len(values)>>

Abs(x) == IF x < 0 THEN -x ELSE x

\* `abs(filtered_mdps - filtered_eps)` as a fraction <<numerator, denominator>>
AbsDiff(fm, fe) == <<Abs(fm[1] * fe[2] - fe[1] * fm[2]), fm[2] * fe[2]>>

DiffAbove(diff, thr) == diff[1] > thr * diff[2]
DiffBelow(diff, thr) == diff[1] < thr * diff[2]

DiffClass(diff) ==
    IF DiffAbove(diff, STEER_INTERVENTION_THRESHOLD) THEN "high"
    ELSE IF DiffBelow(diff, STEER_RESOLUTION_THRESHOLD) THEN "low"
    ELSE "mid"

TimeoutElapsedAlways(now, last) == now - last >= 0

\* `now - last_steer_intervention_time > INTERVENTION_TIMEOUT_NS`
TimeoutElapsed(now, last) == now - last > INTERVENTION_TIMEOUT_NS

GateOpenIgnoringEngaged(fm, fe, engaged, stable) == fm # None /\ fe # None /\ stable

\* the condition under which the detector is evaluated on a CAN frame
GateOpen(fm, fe, engaged, stable) == fm # None /\ fe # None /\ engaged /\ stable

\* the exit waits for the debounce timeout as the entry does
DetectorStepExitDebounced(diff, now, s) ==
    IF /\ DiffAbove(diff, STEER_INTERVENTION_THRESHOLD)
       /\ ~s.in_intervention
       /\ TimeoutElapsed(now, s.last_steer_intervention_time)
    THEN [s EXCEPT !.steer_intervention_count = @ + 1,
                   !.in_intervention = TRUE,
                   !.last_steer_intervention_time = now]
    ELSE IF /\ DiffBelow(diff, STEER_RESOLUTION_THRESHOLD)
            /\ s.in_intervention
            /\ TimeoutElapsed(now, s.last_steer_intervention_time)
    THEN [s EXCEPT !.in_intervention = FALSE]
    ELSE s

\* the hysteresis comparator: entry above the high threshold after the
\* debounce timeout, exit below the low threshold
DetectorStep(diff, now, s) ==
    IF /\ DiffAbove(diff, STEER_INTERVENTION_THRESHOLD)
       /\ ~s.in_intervention
       /\ TimeoutElapsed(now, s.last_steer_intervention_time)
    THEN [s EXCEPT !.steer_intervention_count = @ + 1,
                   !.in_intervention = TRUE,
                   !.last_steer_intervention_time = now]
    ELSE IF DiffBelow(diff, STEER_RESOLUTION_THRESHOLD) /\ s.in_intervention
    THEN [s EXCEPT !.in_intervention = FALSE]
    ELSE s

-----------------------------------------------------------------------------
(* The speed buckets and the drive-time accumulators: one carState sample *)

SPEED_BUCKETS ==
    << [key |-> "city", min_speed |-> 0, max_speed |-> Some(153)],
       [key |-> "road", min_speed |-> 153, max_speed |-> Some(250)],
       [key |-> "highway", min_speed |-> 250, max_speed |-> None] >>

BucketKeys == {SPEED_BUCKETS[i].key : i \in 1..Len(SPEED_BUCKETS)}

\* the first bucket whose range holds the speed, the last bucket if none does
speed_bucket_for(speed_mps) ==
    LET fits == {i \in 1..Len(SPEED_BUCKETS) :
                   /\ speed_mps >= SPEED_BUCKETS[i].min_speed
                   /\ (SPEED_BUCKETS[i].max_speed = None
                          \/ speed_mps < SPEED_BUCKETS[i].max_speed[1])}
    IN IF fits = {} THEN SPEED_BUCKETS[Len(SPEED_BUCKETS)].key
       ELSE SPEED_BUCKETS[CHOOSE i \in fits : \A j \in fits : i <= j].key

\* `bucket['time'] += delta` and the three sums beside it
BucketAfter(bucket, speed, delta, engaged) ==
    [ time |-> bucket.time + delta,
      engaged_time |-> IF engaged THEN bucket.engaged_time + delta ELSE bucket.engaged_time,
      distance |-> bucket.distance + speed * delta,
      engaged_distance |-> IF engaged THEN bucket.engaged_distance + speed * delta
                           ELSE bucket.engaged_distance ]

\* the drive-level buckets after a carState sample at `now`
SpeedBucketsAfter(buckets, s, now) ==
    IF s.last_carstate_time # None /\ now - s.last_carstate_time[1] > 0
    THEN LET key == speed_bucket_for(s.prev_speed)
         IN [buckets EXCEPT ![key] = BucketAfter(@, s.prev_speed,
                                                 now - s.last_carstate_time[1],
                                                 s.prev_engaged)]
    ELSE buckets

\* the segment-level variables after a carState sample at `now`
CarStateStep(s, now, v_ego, engaged) ==
    LET counted == /\ s.last_carstate_time # None
                   /\ s.prev_moving
                   /\ now - s.last_carstate_time[1] > 0
        delta == now - s.last_carstate_time[1]
    IN [s EXCEPT !.drive_time = IF counted THEN @ + delta ELSE @,
                 !.drive_time_active = IF counted /\ s.prev_engaged THEN @ + delta ELSE @,
                 !.prev_moving = v_ego > VEGO_MOVING_THRESHOLD,
                 !.prev_engaged = engaged,
                 !.last_carstate_time = Some(now),
                 !.prev_speed = v_ego]

\* `if drive_stats['openpilot_longitudinal'] is None:` then the event's value,
\* if it has one
OpenpilotLongitudinalAfter(cur, opl) == IF cur = None THEN opl ELSE cur

\* the time since the previous sample is added whatever its mask was
CruiseStepAnyMask(s, now, cruise_state) ==
    [s EXCEPT !.cruise_press_time =
                  IF s.last_cruise_time # None /\ now - s.last_cruise_time[1] > 0
                  THEN @ + (now - s.last_cruise_time[1]) ELSE @,
              !.last_cruise_state = cruise_state,
              !.last_cruise_time = Some(now)]

\* the cruise-button timer: one decoded cruise_state mask
CruiseStep(s, now, cruise_state) ==
    [s EXCEPT !.cruise_press_time =
                  IF /\ s.last_cruise_time # None
                     /\ s.last_cruise_state # 0
                     /\ now - s.last_cruise_time[1] > 0
                  THEN @ + (now - s.last_cruise_time[1]) ELSE @,
              !.last_cruise_state = cruise_state,
              !.last_cruise_time = Some(now)]

-----------------------------------------------------------------------------

DriveStatsInit ==
    [ total_time |-> 0, active_time |-> 0, drive_time |-> 0, drive_time_active |-> 0,
      cruise_press_time_ns |-> 0, odo_start |-> None, odo_end |-> None,
      openpilot_longitudinal |-> None,
      speed_buckets |-> [k \in BucketKeys |->
                           [time |-> 0, engaged_time |-> 0,
                            distance |-> 0, engaged_distance |-> 0]] ]

CarHistInit == [count |-> 0, first |-> None, span |-> 0, params |-> <<>>, engaged |-> FALSE]

NoCall == [op |-> "none"]

\* the state at the head of the segment loop of a new drive
InitDrive ==
    /\ pc = "idle"
    /\ segIdx = 0
    /\ clock = 0
    /\ drive_date \in DriveDates
    /\ drive_stats = DriveStatsInit
    /\ engaged_distance = 0
    /\ last_odo = None
    /\ currently_engaged = FALSE
    /\ engagement_state_changes = 0
    /\ interventions = 0
    /\ total_steer_interventions = 0
    /\ last_engagement_state = None
    /\ pending_reengagement = FALSE
    /\ seg = SegmentInit("unreadable")
    /\ result = None
    /\ ctrlHist = <<>>
    /\ odoHist = <<>>
    /\ lastChange = None
    /\ lastEntry = None
    /\ canCount = 0
    /\ carHist = CarHistInit
    /\ ev = NoEvent

Init == InitDrive /\ call = NoCall

\* every segment starts Disengaged and without a sample to compare with
SegmentBeginFreshEngagement(stream) ==
    /\ pc = "idle"
    /\ segIdx < MaxSegments
    /\ segIdx' = segIdx + 1
    /\ seg' = SegmentInit(stream)
    /\ pc' = "seg"
    /\ ev' = NoEvent
    /\ last_engagement_state' = None
    /\ currently_engaged' = FALSE
    /\ UNCHANGED <<call, clock, drive_date, drive_stats, engaged_distance,
                   last_odo, engagement_state_changes, interventions,
                   total_steer_interventions, pending_reengagement,
                   result, ctrlHist, odoHist, lastChange, lastEntry, canCount>>
    /\ carHist' = [carHist EXCEPT !.first = None]

\* `for rlog_file in rlog_files_sorted:` takes the next segment.  What the file
\* holds is an input: LogReader yields no event at all for a file it cannot
\* open or decompress ("unreadable"), the events of a sound file up to the last
\* one ("complete"), or the events of a damaged file up to the point where the
\* iteration raises ("truncated")
SegmentBegin(stream) ==
    /\ pc = "idle"
    /\ segIdx < MaxSegments
    /\ segIdx' = segIdx + 1
    /\ seg' = SegmentInit(stream)
    /\ pc' = "seg"
    /\ ev' = NoEvent
    /\ UNCHANGED <<call, clock, drive_date, drive_stats, engaged_distance,
                   last_odo, currently_engaged, engagement_state_changes, interventions,
                   total_steer_interventions, last_engagement_state, pending_reengagement,
                   result, ctrlHist, odoHist, lastChange, lastEntry, canCount>>
    /\ carHist' = [carHist EXCEPT !.first = None]

\* every active sample adds the time since the sample before it, active or not
ActiveTimeAfterAnySample(active_time, last_active_time, now, active) ==
    IF active THEN active_time + (now - clock) ELSE active_time

\* `if msg.controlsState.active: if last_active_time != -1: active_time += ...`
ActiveTimeAfter(active_time, last_active_time, now, active) ==
    IF active /\ last_active_time # -1
    THEN active_time + (now - last_active_time) ELSE active_time

\* `msg.which() == 'controlsState'`
ControlsState(now, active) ==
    /\ pc = "seg"
    /\ seg.stream # "unreadable"
    /\ LET changed == StateChanged(last_engagement_state, active)
           cyc == CycleUpdate(changed, active, interventions, pending_reengagement)
           changeTime == IF changed THEN Some(now) ELSE seg.last_engagement_change_time
           stable1 == IF changed THEN FALSE ELSE seg.engagement_stable
           stable2 == IF changeTime # None /\ BufferElapsed(now, changeTime[1])
                      THEN TRUE ELSE stable1
           start == StartTimeAfter(seg.start_time, now)
       IN
       /\ engagement_state_changes' = StateChangesAfter(engagement_state_changes, changed)
       /\ interventions' = cyc.interventions
       /\ pending_reengagement' = cyc.pending
       /\ last_engagement_state' = Some(active)
       /\ currently_engaged' = active
       /\ seg' = [seg EXCEPT
                    !.last_engagement_change_time = changeTime,
                    !.engagement_stable = stable2,
                    !.start_time = start,
                    !.active_time = ActiveTimeAfter(@, seg.last_active_time, now, active),
                    !.last_active_time = IF active THEN now ELSE -1,
                    !.total_time = now - start,
                    !.prev_engaged = active]
       /\ lastChange' = IF changed THEN Some([time |-> now, segment |-> segIdx]) ELSE lastChange
       /\ ev' = [NoEvent EXCEPT !.kind = "controlsState", !.now = now, !.changed = changed]
    /\ clock' = now
    /\ ctrlHist' = Append(ctrlHist, active)
    /\ UNCHANGED <<call, pc, segIdx, drive_date, drive_stats, engaged_distance,
                   last_odo, total_steer_interventions, result, odoHist, lastEntry,
                   canCount, carHist>>

\* "Accumulate segment stats to drive stats", reached when the event loop ends
SegmentEnd ==
    /\ pc = "seg"
    /\ seg.stream # "truncated"
    /\ drive_stats' = [drive_stats EXCEPT
                         !.total_time = @ + seg.total_time,
                         !.active_time = @ + seg.active_time,
                         !.drive_time = @ + seg.drive_time,
                         !.drive_time_active = @ + seg.drive_time_active,
                         !.cruise_press_time_ns = @ + seg.cruise_press_time]
    /\ carHist' = [carHist EXCEPT
                     !.span = IF carHist.first = None THEN @
                              ELSE @ + (seg.last_carstate_time[1] - carHist.first[1])]
    /\ total_steer_interventions' = total_steer_interventions + seg.steer_intervention_count
    /\ pc' = "idle"
    /\ ev' = NoEvent
    /\ UNCHANGED <<call, segIdx, clock, drive_date, engaged_distance,
                   last_odo, currently_engaged, engagement_state_changes, interventions,
                   last_engagement_state, pending_reengagement, seg,
                   result, ctrlHist, odoHist, lastChange, lastEntry, canCount>>

\* `except Exception as e: ... continue`: an exception raised inside the event
\* loop skips the accumulation; what the loop already wrote to the drive-level
\* variables stays
SegmentFail ==
    /\ pc = "seg"
    /\ seg.stream = "truncated"
    /\ pc' = "idle"
    /\ ev' = NoEvent
    /\ UNCHANGED <<call, segIdx, clock, drive_date, drive_stats, engaged_distance,
                   last_odo, currently_engaged, engagement_state_changes, interventions,
                   total_steer_interventions, last_engagement_state, pending_reengagement,
                   seg, result, ctrlHist, odoHist, lastChange, lastEntry, canCount,
                   carHist>>

\* `msg.which() == 'can'`, one frame of the message: the decoded odometer,
\* cruise-button mask and torque values are optional (absent when the frame
\* carries another message)
CanFrame(now, odo_val, cruise_state, val_mdps, val_eps) ==
    /\ pc = "seg"
    /\ seg.stream # "unreadable"
    /\ clock' = now
    /\ canCount' = IF val_mdps # None \/ val_eps # None THEN canCount + 1 ELSE canCount
    \* odometer
    /\ IF odo_val # None
       THEN LET first == drive_stats.odo_start = None
                last == IF first THEN odo_val ELSE last_odo
                d == odo_val[1] - last[1]
            IN
            /\ drive_stats' = [drive_stats EXCEPT
                                 !.odo_start = IF first THEN odo_val ELSE @,
                                 !.odo_end = odo_val]
            /\ engaged_distance' = EngagedDistanceAfter(engaged_distance, d, currently_engaged)
            /\ last_odo' = LastOdoAfter(last, odo_val[1], d)
            /\ odoHist' = Append(odoHist, [odo |-> odo_val[1], engaged |-> currently_engaged])
       ELSE UNCHANGED <<drive_stats, engaged_distance, last_odo, odoHist>>
    \* cruise buttons, then steering
    /\ IF enable_intervention_check
       THEN LET sc == IF cruise_state # None THEN CruiseStep(seg, now, cruise_state[1])
                      ELSE seg
                fv_m == IF val_mdps # None THEN FilterValues(seg.filter_mdps, val_mdps[1])
                        ELSE seg.filter_mdps
                fv_e == IF val_eps # None THEN FilterValues(seg.filter_eps, val_eps[1])
                        ELSE seg.filter_eps
                fm == IF val_mdps # None THEN Some(FilterMean(fv_m)) ELSE seg.filtered_mdps
                fe == IF val_eps # None THEN Some(FilterMean(fv_e)) ELSE seg.filtered_eps
                s1 == [sc EXCEPT !.filter_mdps = fv_m, !.filter_eps = fv_e,
                                  !.filtered_mdps = fm, !.filtered_eps = fe]
                open == GateOpen(fm, fe, currently_engaged, seg.engagement_stable)
                cls == IF fm # None /\ fe # None THEN DiffClass(AbsDiff(fm[1], fe[1])) ELSE "none"
                s2 == IF open THEN DetectorStep(AbsDiff(fm[1], fe[1]), now, s1) ELSE s1
            IN
            /\ seg' = s2
            /\ lastEntry' = IF s2.steer_intervention_count # seg.steer_intervention_count
                            THEN Some([time |-> now, segment |-> segIdx]) ELSE lastEntry
            /\ ev' = [NoEvent EXCEPT !.kind = "can", !.now = now, !.odo = odo_val,
                                     !.evaluated = open, !.cls = cls,
                                     !.cruise = cruise_state]
       ELSE /\ seg' = IF cruise_state # None THEN CruiseStep(seg, now, cruise_state[1])
                       ELSE seg
            /\ UNCHANGED lastEntry
            /\ ev' = [NoEvent EXCEPT !.kind = "can", !.now = now, !.odo = odo_val,
                                     !.cruise = cruise_state]
    /\ UNCHANGED <<call, pc, segIdx, drive_date, currently_engaged,
                   engagement_state_changes, interventions, total_steer_interventions,
                   last_engagement_state, pending_reengagement, result, ctrlHist, lastChange,
                   carHist>>

\* `msg.which() == 'carParams'`; the event's openpilotLongitudinalControl is
\* optional
CarParams(opl) ==
    /\ pc = "seg"
    /\ seg.stream # "unreadable"
    /\ drive_stats' = [drive_stats EXCEPT
                         !.openpilot_longitudinal = OpenpilotLongitudinalAfter(@, opl)]
    /\ carHist' = [carHist EXCEPT !.params = Append(@, opl)]
    /\ ev' = [NoEvent EXCEPT !.kind = "carParams", !.now = clock]
    /\ UNCHANGED <<call, pc, segIdx, clock, drive_date, engaged_distance, last_odo,
                   currently_engaged, engagement_state_changes, interventions,
                   total_steer_interventions, last_engagement_state, pending_reengagement,
                   seg, result, ctrlHist, odoHist, lastChange, lastEntry, canCount>>

\* `msg.which() == 'carState'`
CarState(now, v_ego) ==
    /\ pc = "seg"
    /\ seg.stream # "unreadable"
    /\ clock' = now
    /\ drive_stats' = [drive_stats EXCEPT
                         !.speed_buckets = SpeedBucketsAfter(@, seg, now)]
    /\ seg' = CarStateStep(seg, now, v_ego, currently_engaged)
    /\ carHist' = [carHist EXCEPT !.count = @ + 1,
                                  !.first = IF @ = None THEN Some(now) ELSE @,
                                  !.engaged = currently_engaged]
    /\ ev' = [NoEvent EXCEPT !.kind = "carState", !.now = now]
    /\ UNCHANGED <<call, pc, segIdx, drive_date, engaged_distance, last_odo,
                   currently_engaged, engagement_state_changes, interventions,
                   total_steer_interventions, last_engagement_state, pending_reengagement,
                   result, ctrlHist, odoHist, lastChange, lastEntry, canCount>>

\* round(x, 1) of a distance held in steps of 0.05 km, in steps of 0.1 km:
\* to the nearest tenth, a tie to the even one
Round1(u) ==
    LET lower == (IF u % 2 = 0 THEN u ELSE u - 1) \div 2
    IN IF u % 2 = 0 THEN lower ELSE IF lower % 2 = 0 THEN lower ELSE lower + 1

\* round(n / d, 0) for n >= 0 and d > 0: the nearest integer, a tie to the
\* even one
RoundDiv(n, d) ==
    LET q == n \div d
        r == n % d
    IN IF 2 * r < d THEN q
       ELSE IF 2 * r > d THEN q + 1
       ELSE IF q % 2 = 0 THEN q ELSE q + 1

\* `round((part / whole) * 100, 2)`, in hundredths of a percent
Pct(part, whole) == RoundDiv(part * 10000, whole)

\* `round((engaged_distance / odo_distance) * 100, 2)`: the distance not
\* rounded, in steps of 0.05 km, over odo_distance in steps of 0.1 km
PctOdo(dist, odo_distance) == RoundDiv(dist * 5000, odo_distance)

Per100kmNotScaled(count, odo_distance) == RoundDiv(count * 1000, odo_distance)

\* `round((count / odo_distance) * 100, 2)`, odo_distance in steps of 0.1 km
Per100km(count, odo_distance) == RoundDiv(count * 100000, odo_distance)

\* `if drive_stats['odo_distance'] and drive_stats['odo_distance'] > 0`
RatesGiven(od) == od # None /\ od[1] # 0 /\ od[1] > 0

\* "Calculate final drive statistics": the returned record as a function of
\* the drive-level variables
FinalStats ==
    LET od == IF drive_stats.odo_start # None /\ drive_stats.odo_end # None
              THEN Some(Round1(drive_stats.odo_end[1] - drive_stats.odo_start[1]))
              ELSE None
    IN
    [ odo_distance |-> od,
      engaged_distance |-> IF drive_stats.odo_start # None
                           THEN Some(Round1(engaged_distance)) ELSE None,
      total_time |-> drive_stats.total_time,
      active_time |-> drive_stats.active_time,
      drive_time |-> drive_stats.drive_time,
      drive_time_active |-> drive_stats.drive_time_active,
      cruise_press_time_ns |-> drive_stats.cruise_press_time_ns,
      engagement_pct |-> IF drive_stats.total_time > 0
                         THEN Pct(drive_stats.active_time, drive_stats.total_time) ELSE 0,
      drive_time_engagement_pct |->
          IF drive_stats.drive_time > 0
          THEN Pct(drive_stats.drive_time_active, drive_stats.drive_time) ELSE 0,
      engagement_pct_odo |-> IF RatesGiven(od) THEN Some(PctOdo(engaged_distance, od[1]))
                             ELSE None,
      steer_interventions_per_100km |->
          IF RatesGiven(od) THEN Some(Per100km(total_steer_interventions, od[1])) ELSE None,
      interventions_per_100km |->
          IF RatesGiven(od) THEN Some(Per100km(interventions, od[1])) ELSE None,
      total_state_changes |-> engagement_state_changes,
      intervention_count |-> interventions,
      steer_intervention_count |-> total_steer_interventions,
      openpilot_longitudinal |-> drive_stats.openpilot_longitudinal,
      speed_buckets |-> drive_stats.speed_buckets ]

\* the end of the segment loop: the statistics are computed and returned
Finalize ==
    /\ pc = "idle"
    /\ pc' = "done"
    /\ result' = Some(FinalStats)
    /\ ev' = NoEvent
    /\ UNCHANGED <<call, segIdx, clock, drive_date, drive_stats, engaged_distance,
                   last_odo, currently_engaged, engagement_state_changes, interventions,
                   total_steer_interventions, last_engagement_state, pending_reengagement,
                   seg, ctrlHist, odoHist, lastChange, lastEntry, canCount, carHist>>

Times(D, max) == {clock + d : d \in D} \cap (0..max)

-----------------------------------------------------------------------------
(* The specifications.  Spec feeds controlsState samples only; SpecOdo adds *)
(* odometer frames; SpecSteer adds torque frames.  SpecSteer, SpecRates and *)
(* SpecSkip leave out the segments whose iteration raises.                  *)

Next ==
    \/ \E s \in Streams : SegmentBegin(s)
    \/ \E now \in Times(Dts, MaxTime), a \in BOOLEAN :
          Len(ctrlHist) < MaxCtrl /\ ControlsState(now, a)
    \/ SegmentEnd
    \/ SegmentFail
    \/ Finalize

Spec == Init /\ [][Next]_vars

NextOdo ==
    \/ \E s \in Streams : SegmentBegin(s)
    \/ \E now \in Times(DtsOdo, MaxCtrlOdo + MaxOdo), a \in BOOLEAN :
          Len(ctrlHist) < MaxCtrlOdo /\ ControlsState(now, a)
    \/ \E now \in Times(DtsOdo, MaxCtrlOdo + MaxOdo), o \in OdoVals :
          Len(odoHist) < MaxOdo /\ CanFrame(now, Some(o), None, None, None)
    \/ SegmentEnd
    \/ SegmentFail
    \/ Finalize

SpecOdo == Init /\ [][NextOdo]_vars

NextSteer ==
    \/ \E s \in StreamsSteer : SegmentBegin(s)
    \/ \E now \in Times(DtsSteer, MaxTimeSteer), a \in BOOLEAN :
          Len(ctrlHist) < MaxCtrlSteer /\ ControlsState(now, a)
    \/ \E now \in Times(DtsSteer, MaxTimeSteer), m \in TorqueDriver :
          canCount < MaxCan
            /\ CanFrame(now, None, None, Some(m), None)
    \/ \E now \in Times(DtsSteer, MaxTimeSteer), e \in TorqueMotor :
          canCount < MaxCan
            /\ CanFrame(now, None, None, None, Some(e))
    \/ SegmentEnd
    \/ Finalize

SpecSteer == Init /\ [][NextSteer]_vars

\* SpecRates feeds controlsState samples, odometer frames and torque frames,
\* so that every count and every rate of the final statistics can be non-zero
NextRates ==
    \/ segIdx < MaxSegmentsRates /\ SegmentBegin("complete")
    \/ \E now \in Times(DtsRates, MaxTimeRates), a \in BOOLEAN :
          Len(ctrlHist) < MaxCtrlRates /\ ControlsState(now, a)
    \/ \E now \in Times(DtsRates, MaxTimeRates), o \in OdoRates :
          Len(odoHist) < MaxOdoRates /\ CanFrame(now, Some(o), None, None, None)
    \/ \E now \in Times(DtsRates, MaxTimeRates), m \in TorqueRates :
          canCount < MaxCanRates /\ CanFrame(now, None, None, Some(m), None)
    \/ \E now \in Times(DtsRates, MaxTimeRates), e \in TorqueMotor :
          canCount < MaxCanRates /\ CanFrame(now, None, None, None, Some(e))
    \/ SegmentEnd
    \/ Finalize

SpecRates == Init /\ [][NextRates]_vars

\* SpecSkip feeds controlsState samples and odometer frames to drives some of
\* whose segments cannot be opened
NextSkip ==
    \/ \E s \in StreamsSkip : SegmentBegin(s)
    \/ \E now \in Times(DtsSkip, MaxTimeSkip), a \in BOOLEAN :
          Len(ctrlHist) < MaxCtrlSkip /\ ControlsState(now, a)
    \/ \E now \in Times(DtsSkip, MaxTimeSkip), o \in OdoRates :
          Len(odoHist) < MaxOdoSkip /\ CanFrame(now, Some(o), None, None, None)
    \/ SegmentEnd
    \/ Finalize

SpecSkip == Init /\ [][NextSkip]_vars

\* SpecCar feeds controlsState, carState and carParams events
NextCar ==
    \/ \E s \in Streams : SegmentBegin(s)
    \/ \E now \in Times(DtsCar, MaxTimeCar), a \in BOOLEAN :
          Len(ctrlHist) < MaxCtrlCar /\ ControlsState(now, a)
    \/ \E now \in Times(DtsCar, MaxTimeCar), v \in Speeds :
          carHist.count < MaxCar /\ CarState(now, v)
    \/ \E o \in Opls :
          Len(carHist.params) < MaxParams /\ CarParams(o)
    \/ SegmentEnd
    \/ SegmentFail
    \/ Finalize

SpecCar == Init /\ [][NextCar]_vars

\* the lists of at most MaxList distinct segments, in every order
RlogFileLists ==
    UNION {{q \in [1..n -> {SegmentDir(i) : i \in SegIndices}] :
              \A i, j \in 1..n : i # j => q[i] # q[j]} : n \in 0..MaxList}

\* SpecSort applies the first statement of process_drive_offline to a list of
\* segment paths
InitSort ==
    /\ InitDrive
    /\ call \in {[op |-> "sorted", rlog_files |-> l, rlog_files_sorted |-> None] :
                   l \in RlogFileLists}

SortSegments ==
    /\ call.op = "sorted"
    /\ call.rlog_files_sorted = None
    /\ call' = [call EXCEPT !.rlog_files_sorted = Some(sorted(call.rlog_files))]
    /\ UNCHANGED <<pc, segIdx, clock, drive_date, drive_stats, engaged_distance,
                   last_odo, currently_engaged, engagement_state_changes, interventions,
                   total_steer_interventions, last_engagement_state, pending_reengagement,
                   seg, result, ctrlHist, odoHist, lastChange, lastEntry, canCount,
                   carHist, ev>>

NextSort == SortSegments

SpecSort == InitSort /\ [][NextSort]_vars

-----------------------------------------------------------------------------
(* Properties of the engagement state machine, checked under Spec *)

\* the number of positions of h whose value differs from the one before
Flips(h) == Cardinality({i \in 2..Len(h) : h[i] # h[i-1]})

\* the number of OFF->ON flips of h that follow an earlier ON->OFF flip
Cycles(h) ==
    Cardinality({i \in 2..Len(h) :
                   /\ ~h[i-1] /\ h[i]
                   /\ \E j \in 2..(i-1) : h[j-1] /\ ~h[j]})

\* C1: total_state_changes equals the number of positions of the drive's
\* controlsState sequence, over all its segments, where `active` differs from
\* the sample before; the first sample is only the baseline.
C1_StateChangesCountFlips ==
    /\ engagement_state_changes = Flips(ctrlHist)
    /\ result # None => result[1].total_state_changes = Flips(ctrlHist)

C1_Witness ==
    /\ pc = "done"
    /\ segIdx = 2
    /\ result[1].total_state_changes = 2
    /\ Len(ctrlHist) = 4
    /\ lastChange # None /\ lastChange[1].segment = 2

C3_InterventionsAtMostChanges ==
    /\ interventions <= engagement_state_changes
    /\ result # None => result[1].intervention_count <= result[1].total_state_changes

C3_Witness == interventions = 2 /\ engagement_state_changes = 4

\* C7: per segment and for the whole drive active_time <= total_time, the
\* timestamps being non-decreasing within each segment.
C7_ActiveAtMostTotal ==
    /\ seg.active_time <= seg.total_time
    /\ drive_stats.active_time <= drive_stats.total_time
    /\ result # None => result[1].active_time <= result[1].total_time

C7_Witness ==
    /\ segIdx = 2
    /\ seg.active_time > 0
    /\ seg.active_time < seg.total_time
    /\ drive_stats.active_time > 0
    /\ drive_stats.active_time = drive_stats.total_time

\* the number of ON->OFF flips of h
OnOffFlips(h) == Cardinality({i \in 2..Len(h) : h[i-1] /\ ~h[i]})

\* C19: the disengagement count (intervention_count, column Diseng) increments
\* at every ON->OFF transition of the controls, so it equals the number of
\* ON->OFF transitions of the drive.
C19_CountIsOnOffTransitions ==
    /\ interventions = OnOffFlips(ctrlHist)
    /\ result # None => result[1].intervention_count = OnOffFlips(ctrlHist)

\* the duration gathered so far: the finished segments and the running one
DurationSoFar == drive_stats.total_time + (IF pc = "seg" THEN seg.total_time ELSE 0)

\* C21: total_time (Duration) of a drive is the span from its first to its
\* last log sample, segment boundaries and gaps between segments included:
\* the first sample starts the duration at 0, every later sample adds the time
\* since the sample before it, and the finalized total_time is that sum.
C21_DurationIsSpanOfDrive ==
    [][ /\ ev'.kind = "controlsState" =>
              DurationSoFar' = IF ctrlHist = <<>> THEN 0
                               ELSE DurationSoFar + (ev'.now - clock)
        /\ pc' = "done" => result'[1].total_time = DurationSoFar ]_vars

-----------------------------------------------------------------------------
(* Properties of the odometer tracker, checked under SpecOdo *)

OdoReadings == [i \in 1..Len(odoHist) |-> odoHist[i].odo]
EngagedThroughout == \A i \in 1..Len(odoHist) : odoHist[i].engaged

\* C4: a reading whose delta against lastOdometer is outside (0, 1.0) km does
\* not advance lastOdometer, and the readings 100.0, 100.0, 101.5, 100.05 with
\* Engaged throughout give engagedDistance = 0.05 km (one step).
C4_RejectedReadingKeepsLastOdo ==
    [][ (ev'.kind = "can" /\ ev'.odo # None /\ last_odo # None) =>
          LET d == ev'.odo[1] - last_odo[1] IN
          /\ ~(0 < d /\ d < ODO_MAX_INCREMENT) => last_odo' = last_odo
          /\ (OdoReadings' = <<2000, 2000, 2030, 2001>> /\ EngagedThroughout')
                => engaged_distance' = 1 ]_vars

\* C5: a reading whose delta is <= 0 or >= 1.0 km leaves engagedDistance
\* unchanged, an accepted delta is added if and only if the state is Engaged
\* at that reading, and engagedDistance never decreases.
C5_EngagedDistanceFrame ==
    [][ /\ engaged_distance' >= engaged_distance
        /\ (ev'.kind = "can" /\ ev'.odo # None) =>
              LET prev == IF last_odo = None THEN ev'.odo[1] ELSE last_odo[1]
                  d == ev'.odo[1] - prev
              IN engaged_distance' =
                   engaged_distance +
                   (IF 0 < d /\ d < ODO_MAX_INCREMENT /\ currently_engaged THEN d ELSE 0)
        /\ ~(ev'.kind = "can" /\ ev'.odo # None) => engaged_distance' = engaged_distance
      ]_vars

C5_Witness ==
    /\ OdoReadings = <<2000, 2030, 2000, 2001>>
    /\ odoHist[3].engaged /\ odoHist[4].engaged
    /\ engaged_distance = 1

\* C6: the finalized engaged distance never exceeds the finalized odometer
\* distance (odoEnd - odoStart), glitch readings included.
C6_EngagedAtMostOdoDistance ==
    (result # None /\ result[1].odo_distance # None) =>
        result[1].engaged_distance[1] <= result[1].odo_distance[1]

-----------------------------------------------------------------------------
(* Properties of the steering-intervention detector, checked under SpecSteer *)

\* the step is a CAN frame on which the detector entered Intervening
Entered ==
    /\ ev'.kind = "can"
    /\ seg'.steer_intervention_count = seg.steer_intervention_count + 1

\* the step is a CAN frame that left the detector state and the count alone
DetectorUntouched ==
    /\ seg'.in_intervention = seg.in_intervention
    /\ seg'.steer_intervention_count = seg.steer_intervention_count

\* C8: with the gate open the steering-intervention count increments exactly
\* when the detector goes Idle->Intervening; the first evaluated sample with
\* diff > 1.5 that has no previous Intervening-entry enters and is counted;
\* samples above the threshold while Intervening are never counted.  So the
\* evaluated diffs 0.1, 2.0, 2.0, 0.1 give one entry, at the first 2.0 (third
\* conjunct), no second count at the repeated 2.0 (fourth), and one exit, at
\* the final 0.1 (fifth).
C8_FirstHighSampleIsCounted ==
    [][ (ev'.kind = "can" /\ ev'.evaluated) =>
          /\ seg'.steer_intervention_count \in
                {seg.steer_intervention_count, seg.steer_intervention_count + 1}
          /\ (seg'.steer_intervention_count = seg.steer_intervention_count + 1)
                <=> (~seg.in_intervention /\ seg'.in_intervention)
          /\ (ev'.cls = "high" /\ ~seg.in_intervention /\ lastEntry = None)
                => (seg'.in_intervention
                    /\ seg'.steer_intervention_count = seg.steer_intervention_count + 1)
          /\ seg.in_intervention
                => seg'.steer_intervention_count = seg.steer_intervention_count
          /\ (ev'.cls = "low" /\ seg.in_intervention) => ~seg'.in_intervention ]_vars

\* C9 as stated: any two counted Idle->Intervening transitions of a drive are
\* more than the debounce timeout apart.
C9_EntriesOfDriveApart ==
    [][ (Entered /\ lastEntry # None)
          => ev'.now - lastEntry[1].time > INTERVENTION_TIMEOUT_NS ]_vars

\* C9 as amended: any two counted Idle->Intervening transitions of the same
\* segment are more than the debounce timeout apart (the last-entry time is
\* set back at the start of every segment).
C9_EntriesOfSegmentApart ==
    [][ (Entered /\ lastEntry # None /\ lastEntry[1].segment = segIdx)
          => ev'.now - lastEntry[1].time > INTERVENTION_TIMEOUT_NS ]_vars

C9_Witness ==
    /\ ev.kind = "can"
    /\ seg.steer_intervention_count = 2
    /\ seg.in_intervention
    /\ lastEntry[1].segment = segIdx
    /\ lastEntry[1].time = ev.now

\* C10 as stated: at a CAN frame of the drive within 3 s of the last
\* engagement transition the detector neither changes state nor counts.
C10_GateClosedInDrive ==
    [][ (ev'.kind = "can" /\ lastChange # None
           /\ ev'.now - lastChange[1].time <= ENGAGEMENT_BUFFER_NS)
          => DetectorUntouched ]_vars

\* C10 as amended: at a CAN frame within 3 s of an engagement transition of
\* the same segment the detector neither changes state nor counts (the
\* stability gate is opened again at the start of every segment).
C10_GateClosedInSegment ==
    [][ (ev'.kind = "can" /\ lastChange # None /\ lastChange[1].segment = segIdx
           /\ ev'.now - lastChange[1].time <= ENGAGEMENT_BUFFER_NS)
          => DetectorUntouched ]_vars

\* a frame that would have entered Intervening, had the gate been open
C10_Witness ==
    /\ ev.kind = "can"
    /\ enable_intervention_check
    /\ currently_engaged
    /\ ev.cls = "high"
    /\ ~ev.evaluated
    /\ ~seg.in_intervention
    /\ ev.now - seg.last_steer_intervention_time > INTERVENTION_TIMEOUT_NS
    /\ lastChange # None /\ lastChange[1].segment = segIdx
    /\ ev.now - lastChange[1].time <= ENGAGEMENT_BUFFER_NS

\* C11: the detector is evaluated only when the capability flag is on and the
\* state is Engaged; a CAN frame processed while Disengaged, or in a drive
\* dated before the cutover or with a name that does not parse, leaves the
\* detector state, the last-entry timestamp and the steering-intervention
\* count unchanged.
C11_DetectorFrame ==
    [][ ev'.kind = "can" =>
          /\ ev'.evaluated =>
                (currently_engaged /\ drive_date # None /\ drive_date[1] >= CUTOVER_DATE)
          /\ (~currently_engaged \/ drive_date = None \/ drive_date[1] < CUTOVER_DATE) =>
                /\ seg'.in_intervention = seg.in_intervention
                /\ seg'.last_steer_intervention_time = seg.last_steer_intervention_time
                /\ seg'.steer_intervention_count = seg.steer_intervention_count
                /\ lastEntry' = lastEntry
                /\ total_steer_interventions' = total_steer_interventions ]_vars

\* a frame while Disengaged that would have entered Intervening otherwise
C11_Witness ==
    /\ ev.kind = "can"
    /\ enable_intervention_check
    /\ ~currently_engaged
    /\ seg.engagement_stable
    /\ ev.cls = "high"
    /\ ~ev.evaluated
    /\ ~seg.in_intervention
    /\ seg.steer_intervention_count = 0
    /\ ev.now - seg.last_steer_intervention_time > INTERVENTION_TIMEOUT_NS

-----------------------------------------------------------------------------
(* Properties of the segment loop, checked under SpecSkip, and of the       *)
(* finalization, checked under SpecRates                                    *)

\* C12: a segment that cannot be opened or read changes nothing of what the
\* drive returns: the statistics computed after it are those computed before
\* it, so a two-segment drive whose segment 2 is unreadable returns non-null
\* statistics equal to those of segment 1 alone (total_time, active_time,
\* odo_distance, engagement_pct and the counters included).
C12_UnreadableSegmentAddsNothing ==
    [][ /\ (pc' = "seg" /\ seg'.stream = "unreadable") => FinalStats' = FinalStats
        /\ (pc = "seg" /\ seg.stream = "unreadable") =>
              (pc' = "idle" /\ FinalStats' = FinalStats)
        /\ pc' = "done" => (result' # None /\ result' = Some(FinalStats)) ]_vars

C12_Witness ==
    /\ pc = "done"
    /\ segIdx = 2
    /\ seg.stream = "unreadable"
    /\ result[1].total_time > 0
    /\ result[1].active_time > 0
    /\ result[1].engagement_pct > 0
    /\ result[1].odo_distance # None /\ result[1].odo_distance[1] > 0
    /\ result[1].total_state_changes > 0

\* x is n / d rounded to the nearest integer
Nearest(x, n, d) == 2 * Abs(x * d - n) <= d

\* C18: at finalization odo_distance is null exactly when the drive had no
\* odometer sample; engagement_pct_odo, interventions_per_100km and
\* steer_interventions_per_100km are null exactly when odo_distance is null or
\* <= 0; otherwise each is its count (the engaged distance for the
\* percentage) divided by odo_distance, times 100, to two decimals.
C18_RatesOfFinalStats ==
    result # None =>
        LET r == result[1]
            noRate == r.odo_distance = None \/ r.odo_distance[1] <= 0
        IN
        /\ r.odo_distance = None <=> odoHist = <<>>
        /\ r.engagement_pct_odo = None <=> noRate
        /\ r.interventions_per_100km = None <=> noRate
        /\ r.steer_interventions_per_100km = None <=> noRate
        /\ ~noRate =>
              /\ Nearest(r.interventions_per_100km[1],
                         r.intervention_count * 100000, r.odo_distance[1])
              /\ Nearest(r.steer_interventions_per_100km[1],
                         r.steer_intervention_count * 100000, r.odo_distance[1])
              /\ Nearest(r.engagement_pct_odo[1],
                         engaged_distance * 5000, r.odo_distance[1])

C18_Witness ==
    /\ result # None
    /\ result[1].odo_distance # None /\ result[1].odo_distance[1] > 0
    /\ result[1].intervention_count > 0
    /\ result[1].steer_intervention_count > 0
    /\ result[1].interventions_per_100km[1] > 0
    /\ result[1].steer_interventions_per_100km[1] > 0
    /\ result[1].engagement_pct_odo[1] > 0

-----------------------------------------------------------------------------
(* Properties of the segment loop, the speed buckets and the carParams      *)
(* handler, checked under SpecCar                                           *)

\* C13: a segment whose processing fails, at open or part-way through its
\* event stream, contributes nothing to the drive: no step taken inside such a
\* segment, from its first line to the handler of its exception, changes any
\* of the statistics the drive returns.
C13_FailedSegmentAddsNothing ==
    [][ ((pc' = "seg" /\ seg'.stream # "complete")
           \/ (pc = "seg" /\ seg.stream # "complete"))
          => FinalStats' = FinalStats ]_vars

\* the sum over the speed buckets of one of their four totals
RECURSIVE BucketSum(_, _, _)
BucketSum(buckets, field, keys) ==
    IF keys = {} THEN 0
    ELSE LET k == CHOOSE x \in keys : TRUE
         IN buckets[k][field] + BucketSum(buckets, field, keys \ {k})

\* C16: after processing, the sum over the speed buckets of bucket time equals
\* the sum, over the segments that were processed, of the span from the
\* segment's first carState sample to its last.
C16_BucketTimeIsCarStateSpan ==
    pc = "done" => BucketSum(result[1].speed_buckets, "time", BucketKeys) = carHist.span

\* C17: in every reachable state drive_time_active <= drive_time, for the
\* segment and for the drive, and for every speed bucket engaged_time <= time
\* and engaged_distance <= distance.
C17_EngagedPartAtMostWhole ==
    /\ seg.drive_time_active <= seg.drive_time
    /\ drive_stats.drive_time_active <= drive_stats.drive_time
    /\ \A k \in BucketKeys :
          /\ drive_stats.speed_buckets[k].engaged_time <= drive_stats.speed_buckets[k].time
          /\ drive_stats.speed_buckets[k].engaged_distance
                <= drive_stats.speed_buckets[k].distance

\* C20: openpilot_longitudinal of a drive is true if and only if some
\* carParams event of the drive had openpilotLongitudinalControl true,
\* wherever in the drive the event occurs.
C20_OpLongTrueIffSeenTrue ==
    result # None =>
        (result[1].openpilot_longitudinal = Some(TRUE)
           <=> \E i \in 1..Len(carHist.params) : carHist.params[i] = Some(TRUE))

-----------------------------------------------------------------------------
(* Properties of the order of the segments, checked under SpecSort *)

\* the segment number a directory name was written for
SegmentIndexOf(rlog_path) == CHOOSE n \in SegIndices : SegmentDir(n) = rlog_path

\* C14: whatever the order in which the segments of a drive are supplied, the
\* list the segment loop runs through holds the same segments in ascending
\* numeric segment index; for segments with distinct indices that list is
\* unique, so it, and with it the statistics, is the same for every
\* permutation of the input.
C14_SegmentsInAscendingIndex ==
    (call.op = "sorted" /\ call.rlog_files_sorted # None) =>
        LET in == call.rlog_files
            out == call.rlog_files_sorted[1]
        IN
        /\ Len(out) = Len(in)
        /\ {out[i] : i \in 1..Len(out)} = {in[i] : i \in 1..Len(in)}
        /\ \A i, j \in 1..Len(out) :
              i < j => SegmentIndexOf(out[i]) < SegmentIndexOf(out[j])

C14_Witness ==
    /\ call.op = "sorted"
    /\ call.rlog_files = <<SegmentDir(10), SegmentDir(2), SegmentDir(9)>>
    /\ call.rlog_files_sorted = Some(<<SegmentDir(2), SegmentDir(9), SegmentDir(10)>>)

-----------------------------------------------------------------------------
(* The vehicle profile.  A profile names a DBC file and, per signal key,   *)
(* the message that carries the signal; VehicleSignalDecoder.__init__      *)
(* raises on a profile it cannot use and main() goes on without a decoder. *)

MaxTimeProfile == 5
MaxCtrlProfile == 2
MaxCarProfile == 2
MaxOdoProfile == 1
MaxCanProfile == 1

\* the files that exist and the messages the DBC file defines
DbcFiles == {"hyundai.dbc"}
DbcMessages == {"CLU", "MDPS", "CRUISE"}

\* the signal keys process_drive_offline reads from a decoded frame
SignalKeys == {"odometer", "cruise_state", "steering_driver_torque", "steering_motor_torque"}

SignalsCfg(message_of) == {[key |-> k, message |-> message_of[k]] : k \in SignalKeys}

WellFormedSignals ==
    SignalsCfg([k \in SignalKeys |->
                  CASE k = "odometer" -> "CLU"
                    [] k = "cruise_state" -> "CRUISE"
                    [] OTHER -> "MDPS"])

\* a well-formed profile and the malformed ones: no dbc_file entry, a DBC
\* file that does not exist, no signal definitions, a signal without a
\* message name, a message the DBC file does not define
Profiles ==
    { [dbc_file |-> Some("hyundai.dbc"), signals |-> WellFormedSignals],
      [dbc_file |-> None, signals |-> WellFormedSignals],
      [dbc_file |-> Some("missing.dbc"), signals |-> WellFormedSignals],
      [dbc_file |-> Some("hyundai.dbc"), signals |-> {}],
      [dbc_file |-> Some("hyundai.dbc"),
       signals |-> SignalsCfg([k \in SignalKeys |-> IF k = "odometer" THEN "" ELSE "MDPS"])],
      [dbc_file |-> Some("hyundai.dbc"),
       signals |-> SignalsCfg([k \in SignalKeys |-> IF k = "odometer" THEN "EMS" ELSE "MDPS"])] }

\* VehicleSignalDecoder.__init__: the exception it raises, or the signal keys
\* of the decoder it builds
VehicleSignalDecoderInit(profile_config) ==
    IF profile_config.dbc_file = None
    THEN [raised |-> "ValueError", keys |-> {}]
    ELSE IF profile_config.dbc_file[1] \notin DbcFiles
    THEN [raised |-> "FileNotFoundError", keys |-> {}]
    ELSE IF profile_config.signals = {}
    THEN [raised |-> "ValueError", keys |-> {}]
    ELSE IF \E cfg \in profile_config.signals : cfg.message = ""
    THEN [raised |-> "ValueError", keys |-> {}]
    ELSE IF \E cfg \in profile_config.signals : cfg.message \notin DbcMessages
    THEN [raised |-> "KeyError", keys |-> {}]
    ELSE [raised |-> "none", keys |-> {cfg.key : cfg \in profile_config.signals}]

\* main(): `vehicle_decoder = None`, replaced by the decoder unless the
\* constructor raises
VehicleDecoderFor(profile_config) ==
    LET made == VehicleSignalDecoderInit(profile_config)
    IN IF made.raised = "none" THEN Some(made.keys) ELSE None

\* the decoder reads every signal the frame carries, whether or not it exists
DecodedWithoutDecoder(vehicle_decoder, key, value) == value

\* `decoded_signals.get(key)`: decoded_signals is empty without a decoder and
\* holds the signals of the frame that the profile defines otherwise
Decoded(vehicle_decoder, key, value) ==
    IF vehicle_decoder # None /\ key \in vehicle_decoder[1] THEN value ELSE None

\* main() sets up the decoder of the drive's profile before the drive is
\* processed
LoadVehicleProfile(profile_config) ==
    /\ call = NoCall
    /\ call' = [op |-> "main", profile |-> profile_config,
                vehicle_decoder |-> VehicleDecoderFor(profile_config)]
    /\ UNCHANGED <<pc, segIdx, clock, drive_date, drive_stats, engaged_distance,
                   last_odo, currently_engaged, engagement_state_changes, interventions,
                   total_steer_interventions, last_engagement_state, pending_reengagement,
                   seg, result, ctrlHist, odoHist, lastChange, lastEntry, canCount,
                   carHist, ev>>

\* one frame of a `can` message, carrying the raw signals odo, cruise, mdps
\* and eps (each optional), decoded by the drive's decoder
CanMessage(now, odo, cruise, mdps, eps) ==
    CanFrame(now, Decoded(call.vehicle_decoder, "odometer", odo),
                  Decoded(call.vehicle_decoder, "cruise_state", cruise),
                  Decoded(call.vehicle_decoder, "steering_driver_torque", mdps),
                  Decoded(call.vehicle_decoder, "steering_motor_torque", eps))

DtsProfile == {1}
CruiseMasks == {1}
OdoProfile == {2000}
SpeedsProfile == {200}

\* the frames of SpecProfile: an odometer frame, a cruise-button frame, a
\* torque frame
RawFrames ==
    {<<Some(o), None, None, None>> : o \in OdoProfile}
      \cup {<<None, Some(c), None, None>> : c \in CruiseMasks}
      \cup {<<None, None, Some(m), Some(e)>> : m \in TorqueRates, e \in TorqueMotor}

\* SpecProfile loads a profile and feeds one segment of controlsState,
\* carState and can events
NextProfile ==
    \/ \E p \in Profiles : LoadVehicleProfile(p)
    \/ call # NoCall /\ segIdx = 0 /\ SegmentBegin("complete")
    \/ \E now \in Times(DtsProfile, MaxTimeProfile), a \in BOOLEAN :
          call # NoCall /\ Len(ctrlHist) < MaxCtrlProfile /\ ControlsState(now, a)
    \/ \E now \in Times(DtsProfile, MaxTimeProfile), v \in SpeedsProfile :
          call # NoCall /\ carHist.count < MaxCarProfile /\ CarState(now, v)
    \/ \E now \in Times(DtsProfile, MaxTimeProfile), f \in RawFrames :
          /\ call # NoCall
          /\ Len(odoHist) < MaxOdoProfile
          /\ canCount < MaxCanProfile
          /\ CanMessage(now, f[1], f[2], f[3], f[4])
    \/ call # NoCall /\ SegmentEnd
    \/ call # NoCall /\ Finalize

SpecProfile == Init /\ [][NextProfile]_vars

\* the profile of the drive was loaded and the constructor raised on it
MalformedProfile ==
    call # NoCall /\ VehicleSignalDecoderInit(call.profile).raised # "none"

\* C22: a vehicle profile on which the decoder's constructor raises does not
\* stop the drive from being processed: the drive has no decoder, so no
\* odometer reading, cruise-button press or steering intervention is ever
\* recorded, and the final statistics have null odo_distance and
\* engaged_distance, zero cruise press time and zero steering interventions
C22_MalformedProfileDecodesNothing ==
    MalformedProfile =>
        /\ call.vehicle_decoder = None
        /\ drive_stats.odo_start = None /\ drive_stats.odo_end = None
        /\ engaged_distance = 0
        /\ odoHist = <<>> /\ canCount = 0
        /\ pc = "seg" => seg.cruise_press_time = 0 /\ seg.steer_intervention_count = 0
        /\ drive_stats.cruise_press_time_ns = 0
        /\ total_steer_interventions = 0
        /\ result # None =>
              /\ result[1].odo_distance = None
              /\ result[1].engaged_distance = None
              /\ result[1].cruise_press_time_ns = 0
              /\ result[1].steer_intervention_count = 0
              /\ result[1].total_time = drive_stats.total_time
              /\ result[1].active_time = drive_stats.active_time
              /\ result[1].drive_time = drive_stats.drive_time

\* a drive with a malformed profile is finished with engagement time
\* statistics from its controlsState and carState samples
C22_Witness ==
    /\ MalformedProfile
    /\ result # None
    /\ result[1].total_time > 0 /\ result[1].active_time > 0
    /\ result[1].drive_time > 0 /\ result[1].drive_time_active > 0
    /\ result[1].engagement_pct > 0

-----------------------------------------------------------------------------
(* A vehicle at constant speed: the odometer reading of a frame and the    *)
(* vEgo of a carState sample describe the same motion.                     *)

MaxTimeTrip == 4
MaxCtrlTrip == 2
MaxCarTrip == 2
MaxOdoTrip == 2

\* 25 m/s, in steps of 0.1 m/s
TripSpeed == 250
DtsTrip == {0, 2}

\* the odometer starts at 100 km and counts steps of 0.05 km (500 steps of
\* 0.1 m, the step of the bucket distances)
OdometerAt(now) == 2000 + (TripSpeed * now) \div 500

\* SpecTrip feeds controlsState samples, and the carState samples and
\* odometer frames of the vehicle at constant speed
NextTrip ==
    \/ SegmentBegin("complete")
    \/ \E now \in Times(DtsTrip, MaxTimeTrip), a \in BOOLEAN :
          Len(ctrlHist) < MaxCtrlTrip /\ ControlsState(now, a)
    \/ \E now \in Times(DtsTrip, MaxTimeTrip) :
          carHist.count < MaxCarTrip /\ CarState(now, TripSpeed)
    \/ \E now \in Times(DtsTrip, MaxTimeTrip) :
          Len(odoHist) < MaxOdoTrip
             /\ CanFrame(now, Some(OdometerAt(now)), None, None, None)
    \/ SegmentEnd
    \/ Finalize

SpecTrip == Init /\ [][NextTrip]_vars

\* the odometer frames and the carState samples of the drive cover the same
\* distance
SameDistanceMeasured ==
    /\ drive_stats.odo_start # None
    /\ (drive_stats.odo_end[1] - drive_stats.odo_start[1]) * 500
          = BucketSum(drive_stats.speed_buckets, "distance", BucketKeys)

\* C23: at the end of a drive whose odometer frames and carState samples
\* cover the same distance, the sum over the speed buckets of engaged_distance
\* equals the engaged distance of the odometer tracker (both in steps of
\* 0.1 m), the two being attributed by the same engagement state.
C23_BucketEngagedDistanceIsTrackerDistance ==
    (pc = "done" /\ SameDistanceMeasured) =>
        BucketSum(result[1].speed_buckets, "engaged_distance", BucketKeys)
            = engaged_distance * 500
-----------------------------------------------------------------------------
(* The store of finished drives: upsert_drive_to_db *)

MaxStore == 2
MaxUpserts == 2

DeviceIds == {"dev1", "dev2"}
DriveNames == {"2025-07-06--10-00-00", "2025-07-07--10-00-00"}
\* what else an entry holds, here its total_time
Payloads == {60, 120}

DbEntries ==
    {[device_id |-> dv, drive |-> dr, total_time |-> p] :
        dv \in DeviceIds, dr \in DriveNames, p \in Payloads}

SameKey(a, b) == a.device_id = b.device_id /\ a.drive = b.drive

\* no two entries of the store have the same (device_id, drive)
UniqueKeys(db) == \A i, j \in 1..Len(db) : i # j => ~SameKey(db[i], db[j])

\* the stores the tool writes: at most MaxStore entries, no key twice
Stores == UNION {{db \in [1..n -> DbEntries] : UniqueKeys(db)} : n \in 0..MaxStore}

\* the entry is appended whether or not its key is in the store
upsert_drive_to_db_append(engagement_db, new_entry) == Append(engagement_db, new_entry)

\* the store after upsert_drive_to_db: the first entry with the key of
\* new_entry is replaced, and new_entry is appended if there is none
upsert_drive_to_db(engagement_db, new_entry) ==
    LET found == {i \in 1..Len(engagement_db) : SameKey(engagement_db[i], new_entry)}
    IN IF found = {} THEN Append(engagement_db, new_entry)
       ELSE [engagement_db EXCEPT ![CHOOSE i \in found : \A j \in found : i <= j] = new_entry]

\* SpecUpsert starts from a store and upserts entries into it
InitUpsert ==
    /\ InitDrive
    /\ call \in {[op |-> "upsert", engagement_db |-> db, before |-> db,
                  new_entry |-> None, count |-> 0] : db \in Stores}

UpsertDrive(db_entry) ==
    /\ call.op = "upsert"
    /\ call.count < MaxUpserts
    /\ call' = [call EXCEPT !.before = call.engagement_db,
                            !.new_entry = Some(db_entry),
                            !.engagement_db = upsert_drive_to_db(call.engagement_db, db_entry),
                            !.count = @ + 1]
    /\ UNCHANGED <<pc, segIdx, clock, drive_date, drive_stats, engaged_distance,
                   last_odo, currently_engaged, engagement_state_changes, interventions,
                   total_steer_interventions, last_engagement_state, pending_reengagement,
                   seg, result, ctrlHist, odoHist, lastChange, lastEntry, canCount,
                   carHist, ev>>

NextUpsert == \E e \in DbEntries : UpsertDrive(e)

SpecUpsert == InitUpsert /\ [][NextUpsert]_vars

\* the positions of the store that hold the key of entry e
PositionsOf(db, e) == {i \in 1..Len(db) : SameKey(db[i], e)}

\* C24: starting from a store with unique keys, after any sequence of upserts
\* the keys are unique; an upsert of a key in the store replaces that entry
\* where it is, an upsert of a new key appends; every other entry and the
\* order of the entries are unchanged; upserting the same entry once more
\* changes nothing.
C24_UpsertKeepsStoreKeyed ==
    /\ UniqueKeys(call.engagement_db)
    /\ call.new_entry # None =>
          LET db == call.before
              e == call.new_entry[1]
              out == call.engagement_db
          IN /\ PositionsOf(db, e) # {} =>
                   /\ Len(out) = Len(db)
                   /\ \A i \in 1..Len(db) :
                         out[i] = IF i \in PositionsOf(db, e) THEN e ELSE db[i]
             /\ PositionsOf(db, e) = {} => out = db \o <<e>>
             /\ upsert_drive_to_db(out, e) = out

\* a store of two grew by an upsert of a new key, and its first entry was
\* then replaced by an entry that differs from it
C24_Witness ==
    /\ call.op = "upsert"
    /\ call.count = 2
    /\ Len(call.before) = 3
    /\ SameKey(call.before[1], call.new_entry[1])
    /\ call.before[1] # call.new_entry[1]
    /\ call.engagement_db[1] = call.new_entry[1]

-----------------------------------------------------------------------------
(* The active time of a segment, checked under Spec *)

\* C25: the active_time of a segment is the sum of the time between
\* consecutive controlsState samples of the segment that are both active: it
\* starts at zero in every segment, and a sample adds the time since the
\* sample before it when that one is of the same segment and both are active,
\* and adds nothing otherwise.
C25_ActiveTimeSumsActivePairs ==
    [][ /\ (pc = "idle" /\ pc' = "seg") => seg'.active_time = 0
        /\ ev'.kind = "controlsState" =>
              seg'.active_time =
                 seg.active_time
                   + (IF /\ ev.kind = "controlsState"
                         /\ ctrlHist[Len(ctrlHist)]
                         /\ ctrlHist'[Len(ctrlHist')]
                      THEN ev'.now - ev.now ELSE 0) ]_vars

\* in the second segment of a drive an inactive sample follows a pair of
\* active ones, after a first segment that gathered active time too
C25_Witness ==
    /\ segIdx = 2
    /\ ev.kind = "controlsState"
    /\ ~ctrlHist[Len(ctrlHist)]
    /\ seg.last_active_time = -1
    /\ seg.active_time > 0
    /\ drive_stats.active_time > 0

-----------------------------------------------------------------------------
(* The stability gate and the thresholds of the detector, under SpecSteer *)

\* C26: a CAN frame more than 3 s after the last engagement transition, in a
\* drive with the capability on, while Engaged and with both filtered torque
\* values present, is evaluated by the detector, whether or not a
\* controlsState sample came after the 3 s had passed.
C26_GateOpensByFrameTime ==
    [][ ( /\ ev'.kind = "can"
          /\ enable_intervention_check
          /\ currently_engaged
          /\ seg'.filtered_mdps # None /\ seg'.filtered_eps # None
          /\ lastChange # None
          /\ ev'.now - lastChange[1].time > ENGAGEMENT_BUFFER_NS )
        => ev'.evaluated ]_vars


MaxTimeHyst == 11
MaxCtrlHyst == 2
MaxCanHyst == 4

DtsHyst == {0, 11}
\* driver torques whose running means 6.0, 1.0 and 0.0 are above the high
\* threshold, between the two thresholds and below the low one
TorqueHyst == {60, -40, -20}

\* SpecHyst feeds one segment of controlsState samples and torque frames
NextHyst ==
    \/ segIdx = 0 /\ SegmentBegin("complete")
    \/ \E now \in Times(DtsHyst, MaxTimeHyst), a \in BOOLEAN :
          Len(ctrlHist) < MaxCtrlHyst /\ ControlsState(now, a)
    \/ \E now \in Times(DtsHyst, MaxTimeHyst), m \in TorqueHyst :
          canCount < MaxCanHyst
            /\ CanFrame(now, None, None, Some(m), None)
    \/ \E now \in Times(DtsHyst, MaxTimeHyst), e \in TorqueMotor :
          canCount < MaxCanHyst
            /\ CanFrame(now, None, None, None, Some(e))
    \/ SegmentEnd
    \/ Finalize

SpecHyst == Init /\ [][NextHyst]_vars

\* C27: while Intervening, an evaluated frame with diff < 0.3 returns the
\* detector to Idle, however short the time since the entry; an evaluated
\* frame with 0.3 <= diff <= 1.5 leaves the detector state, the count and the
\* last-entry time as they were, in Idle and in Intervening alike.
C27_HysteresisExit ==
    [][ (ev'.kind = "can" /\ ev'.evaluated) =>
          /\ (seg.in_intervention /\ ev'.cls = "low") => ~seg'.in_intervention
          /\ ev'.cls = "mid" =>
                /\ DetectorUntouched
                /\ seg'.last_steer_intervention_time = seg.last_steer_intervention_time ]_vars

\* the detector is back in Idle on a frame below the low threshold, within
\* the debounce timeout of the entry, a frame between the thresholds having
\* left it Intervening before: the window holds the three torques in order
C27_Witness ==
    /\ ev.kind = "can" /\ ev.evaluated /\ ev.cls = "low"
    /\ seg.filter_mdps = <<60, -40, -20>>
    /\ seg.steer_intervention_count = 1
    /\ ~seg.in_intervention
    /\ lastEntry # None
    /\ ev.now - lastEntry[1].time <= INTERVENTION_TIMEOUT_NS

-----------------------------------------------------------------------------
(* The engaged part of a carState interval, under SpecCar *)

\* C28: the interval between two consecutive carState samples of a segment
\* goes to the bucket of the earlier sample's speed, and when the system was
\* Disengaged at the earlier sample the interval adds nothing to the engaged
\* time and engaged distance of any bucket nor to drive_time_active.
C28_EngagedCreditNeedsEngagedInterval ==
    [][ ( /\ ev'.kind = "carState"
          /\ seg.last_carstate_time # None
          /\ ev'.now > seg.last_carstate_time[1] )
        => LET key == speed_bucket_for(seg.prev_speed)
               delta == ev'.now - seg.last_carstate_time[1]
           IN /\ drive_stats'.speed_buckets[key].time
                    = drive_stats.speed_buckets[key].time + delta
              /\ drive_stats'.speed_buckets[key].distance
                    = drive_stats.speed_buckets[key].distance + seg.prev_speed * delta
              /\ ~carHist.engaged =>
                    /\ \A k \in BucketKeys :
                          /\ drive_stats'.speed_buckets[k].engaged_time
                                = drive_stats.speed_buckets[k].engaged_time
                          /\ drive_stats'.speed_buckets[k].engaged_distance
                                = drive_stats.speed_buckets[k].engaged_distance
                    /\ seg'.drive_time_active = seg.drive_time_active ]_vars

-----------------------------------------------------------------------------
(* The drive-scoped state across segment boundaries, under SpecSkip *)

\* the engagement state that the drive's controlsState samples so far leave
CarriedEngaged == ctrlHist # <<>> /\ ctrlHist[Len(ctrlHist)]

\* C29: the first controlsState sample of a later segment is compared with
\* the drive's last sample before it: a flip counts as a state change, and an
\* OFF->ON flip after an earlier ON->OFF flip counts one cycle.  An odometer
\* reading is differenced against the drive's last reading before it, of
\* whichever segment, and an accepted increment is added when the engagement
\* state left by the drive's last controlsState sample is Engaged.
C29_DriveStateCrossesSegments ==
    [][ /\ ( /\ ev'.kind = "controlsState"
             /\ segIdx > 1 /\ seg.start_time = -1
             /\ ctrlHist # <<>> )
           => LET last == ctrlHist[Len(ctrlHist)]
                  cur == ctrlHist'[Len(ctrlHist')]
              IN /\ engagement_state_changes' =
                       engagement_state_changes + (IF cur # last THEN 1 ELSE 0)
                 /\ interventions' =
                       interventions
                         + (IF ~last /\ cur /\ OnOffFlips(ctrlHist) > 0 THEN 1 ELSE 0)
        /\ (ev'.kind = "can" /\ ev'.odo # None /\ odoHist # <<>>)
           => LET d == ev'.odo[1] - odoHist[Len(odoHist)].odo
              IN engaged_distance' =
                   engaged_distance
                     + (IF 0 < d /\ d < ODO_MAX_INCREMENT /\ CarriedEngaged THEN d ELSE 0)
      ]_vars

\* the first event of the second segment is an odometer reading, credited
\* against the reading of the first segment by the engagement state that a
\* controlsState sample of the first segment left
C29_Witness ==
    /\ segIdx = 2 /\ pc = "seg"
    /\ seg.start_time = -1
    /\ ev.kind = "can"
    /\ Len(odoHist) = 2
    /\ ~odoHist[1].engaged /\ odoHist[2].engaged
    /\ engaged_distance = odoHist[2].odo - odoHist[1].odo
    /\ engaged_distance > 0


-----------------------------------------------------------------------------
(* The cruise-button timer *)

MaxTimeCruise == 4
DtsCruise == {0, 1, 2}
\* decoded cruise_state masks: no button, one button, another button
CruiseStates == {0, 1, 4}

\* SpecCruise feeds cruise-button frames
NextCruise ==
    \/ \E s \in Streams : SegmentBegin(s)
    \/ \E now \in Times(DtsCruise, MaxTimeCruise), c \in CruiseStates :
          CanFrame(now, None, Some(c), None, None)
    \/ SegmentEnd
    \/ SegmentFail
    \/ Finalize

SpecCruise == Init /\ [][NextCruise]_vars

\* C30: the cruise press time of a segment starts at zero without a previous
\* sample; a decoded cruise-state sample adds the time since the previous
\* sample of the same segment when that sample's mask was not zero, and adds
\* nothing otherwise; every sample becomes the previous sample, with its time
\* and its mask.
C30_CruisePressTime ==
    [][ /\ (pc = "idle" /\ pc' = "seg") =>
              seg'.cruise_press_time = 0 /\ seg'.last_cruise_time = None
        /\ (ev'.kind = "can" /\ ev'.cruise # None) =>
              /\ seg'.cruise_press_time =
                    seg.cruise_press_time
                      + (IF ev.kind = "can" /\ ev.cruise # None /\ ev.cruise[1] # 0
                         THEN ev'.now - ev.now ELSE 0)
              /\ seg'.last_cruise_time = Some(ev'.now)
              /\ seg'.last_cruise_state = ev'.cruise[1] ]_vars

\* both segments of a drive gathered press time, a sample with no button
\* held closes the second one, and half of the drive's time was not counted
C30_Witness ==
    /\ segIdx = 2 /\ pc = "seg"
    /\ ev.kind = "can" /\ ev.cruise = Some(0)
    /\ ev.now = MaxTimeCruise
    /\ seg.cruise_press_time = 1
    /\ drive_stats.cruise_press_time_ns = 1

-----------------------------------------------------------------------------
(* The classification of a speed: _speed_bucket_for *)

\* speeds in steps of 0.1 m/s, from -0.5 m/s to 30 m/s
SpeedValues == (-5)..300

\* SpecBucket classifies one speed
InitBucket ==
    /\ InitDrive
    /\ call \in {[op |-> "speed_bucket_for", speed_mps |-> v, key |-> None] :
                   v \in SpeedValues}

ClassifySpeed ==
    /\ call.op = "speed_bucket_for"
    /\ call.key = None
    /\ call' = [call EXCEPT !.key = Some(speed_bucket_for(call.speed_mps))]
    /\ UNCHANGED <<pc, segIdx, clock, drive_date, drive_stats, engaged_distance,
                   last_odo, currently_engaged, engagement_state_changes, interventions,
                   total_steer_interventions, last_engagement_state, pending_reengagement,
                   seg, result, ctrlHist, odoHist, lastChange, lastEntry, canCount,
                   carHist, ev>>

NextBucket == ClassifySpeed

SpecBucket == InitBucket /\ [][NextBucket]_vars

\* the buckets whose range [min_speed, max_speed) holds the speed
BucketsHolding(v) ==
    {i \in 1..Len(SPEED_BUCKETS) :
        /\ SPEED_BUCKETS[i].min_speed <= v
        /\ (SPEED_BUCKETS[i].max_speed = None \/ v < SPEED_BUCKETS[i].max_speed[1])}

\* C31: the ranges of the speed buckets are contiguous and do not overlap,
\* and every speed is classified into the one bucket whose range
\* [min_speed, max_speed) holds it, a boundary value into the upper bucket.
C31_SpeedInBucketRange ==
    /\ \A i \in 1..(Len(SPEED_BUCKETS) - 1) :
          SPEED_BUCKETS[i].max_speed = Some(SPEED_BUCKETS[i+1].min_speed)
    /\ (call.op = "speed_bucket_for" /\ call.key # None) =>
          /\ Cardinality(BucketsHolding(call.speed_mps)) = 1
          /\ \E i \in BucketsHolding(call.speed_mps) : SPEED_BUCKETS[i].key = call.key[1]

-----------------------------------------------------------------------------
(* VehicleSignalDecoder.decode: one CAN frame against the bindings of a    *)
(* decoder.  A binding maps (source, address) to the signal entries of one *)
(* message; the source of a bus-agnostic binding is None.  The payload is  *)
(* what message.decode makes of the bytes: the raw value of each signal    *)
(* (None for a signal the message does not hold), or "malformed" when it   *)
(* raises.                                                                 *)

DbcSignals == {"ODO", "TQ", "B0", "B1"}
RawValues == {0, 7}

EntryOdo == [key |-> "odometer", signal_name |-> "ODO", scale |-> 2, offset |-> 3,
             key_index |-> 0, key_total |-> 1]
EntryTorque == [key |-> "steering_driver_torque", signal_name |-> "TQ", scale |-> 1,
                offset |-> -1, key_index |-> 0, key_total |-> 1]
EntryButton(idx) == [key |-> "cruise_state", signal_name |-> IF idx = 0 THEN "B0" ELSE "B1",
                     scale |-> 1, offset |-> 0, key_index |-> idx, key_total |-> 2]

\* the bindings a profile may define: one for bus 0 and one for any bus at
\* address 1, one for any bus at address 2
AllBindings ==
    [k \in {<<Some(0), 1>>, <<None, 1>>, <<None, 2>>} |->
        IF k = <<Some(0), 1>> THEN <<EntryOdo>>
        ELSE IF k = <<None, 1>> THEN <<EntryTorque>>
        ELSE <<EntryButton(0), EntryButton(1)>>]

\* signals_by_address of the decoders: the constructor leaves no decoder
\* without a binding and no binding without an entry
Decoders ==
    {[k \in ks |-> AllBindings[k]] : ks \in (SUBSET (DOMAIN AllBindings)) \ {{}}}

FrameSources == {0, 1}
FrameAddresses == {1, 2, 3}
\* what message.decode makes of the payloads
DecodedPayloads ==
    {[raises |-> TRUE, signals |-> [g \in DbcSignals |-> None]]}
      \cup {[raises |-> FALSE, signals |-> f] :
               f \in [DbcSignals -> {None} \cup {Some(r) : r \in RawValues}]}

EmptyMap == [k \in {} |-> None]

\* the bus-agnostic binding is taken first
BindingForAnyBusFirst(signals_by_address, source, address) ==
    IF <<None, address>> \in DOMAIN signals_by_address
    THEN signals_by_address[<<None, address>>]
    ELSE IF <<Some(source), address>> \in DOMAIN signals_by_address
    THEN signals_by_address[<<Some(source), address>>]
    ELSE <<>>

\* `entries = self.signals_by_address.get((source, address))`, then the get
\* of (None, address) `if entries is None`
BindingFor(signals_by_address, source, address) ==
    IF <<Some(source), address>> \in DOMAIN signals_by_address
    THEN signals_by_address[<<Some(source), address>>]
    ELSE IF <<None, address>> \in DOMAIN signals_by_address
    THEN signals_by_address[<<None, address>>]
    ELSE <<>>

\* `value * entry.scale + entry.offset`
ScaledValue(value, entry) == value * entry.scale + entry.offset

\* the loop over the entries: a scalar for a key of one entry (the last
\* entry with a value), a list of slots for a key of several
DecodedResults(entries, decoded) ==
    LET valued == {i \in 1..Len(entries) : decoded[entries[i].signal_name] # None}
        value(i) == ScaledValue(decoded[entries[i].signal_name][1], entries[i])
        of(k) == {i \in valued : entries[i].key = k}
        last(k) == CHOOSE i \in of(k) : \A j \in of(k) : j <= i
    IN [k \in {entries[i].key : i \in valued} |->
          IF entries[last(k)].key_total > 1
          THEN [is_list |-> TRUE, value |-> 0,
                slots |-> [slot \in 1..entries[last(k)].key_total |->
                             IF \E i \in of(k) : entries[i].key_index + 1 = slot
                             THEN Some(value(CHOOSE i \in of(k) :
                                               entries[i].key_index + 1 = slot))
                             ELSE None]]
          ELSE [is_list |-> FALSE, value |-> value(last(k)), slots |-> <<>>]]

\* the loop over the results: a list of nothing but None is dropped
WithoutEmptyLists(results) ==
    [k \in {x \in DOMAIN results :
              ~results[x].is_list
                 \/ \E i \in DOMAIN results[x].slots : results[x].slots[i] # None}
       |-> results[k]]

\* VehicleSignalDecoder.decode
decode(signals_by_address, source, address, data) ==
    LET entries == BindingFor(signals_by_address, source, address)
    IN IF entries = <<>> THEN EmptyMap
       ELSE IF data.raises THEN EmptyMap
       ELSE WithoutEmptyLists(DecodedResults(entries, data.signals))

\* SpecDecode decodes one frame with one decoder
InitDecode ==
    /\ InitDrive
    /\ call \in {[op |-> "decode", signals_by_address |-> d, source |-> s, address |-> a,
                  data |-> p, results |-> None] :
                    d \in Decoders, s \in FrameSources, a \in FrameAddresses,
                    p \in DecodedPayloads}

\* `decoded_signals = vehicle_decoder.decode(m.src, m.address, m.dat)`; no
\* statement of decode assigns to the decoder
DecodeFrame ==
    /\ call.op = "decode"
    /\ call.results = None
    /\ call' = [call EXCEPT !.results = Some(decode(call.signals_by_address, call.source,
                                                    call.address, call.data))]
    /\ UNCHANGED <<pc, segIdx, clock, drive_date, drive_stats, engaged_distance,
                   last_odo, currently_engaged, engagement_state_changes, interventions,
                   total_steer_interventions, last_engagement_state, pending_reengagement,
                   seg, result, ctrlHist, odoHist, lastChange, lastEntry, canCount,
                   carHist, ev>>

NextDecode == DecodeFrame

SpecDecode == InitDecode /\ [][NextDecode]_vars

\* the entries a frame is decoded with: those bound to its bus and address,
\* those bound to the address on any bus when there are none, else none
EntriesOfFrame ==
    LET d == call.signals_by_address
        specific == <<Some(call.source), call.address>>
        any == <<None, call.address>>
    IN CASE specific \in DOMAIN d -> d[specific]
         [] specific \notin DOMAIN d /\ any \in DOMAIN d -> d[any]
         [] OTHER -> <<>>

\* C32: decode uses the binding of the frame's bus and address, and the
\* bus-agnostic binding of the address only when there is no such binding;
\* the result is empty when neither exists or the payload cannot be decoded;
\* otherwise it holds, for each entry of the binding whose signal the payload
\* holds, raw * scale + offset under the entry's key (in the entry's slot
\* for a key of several entries) and nothing else; the decoder is unchanged.
C32_DecodeByBinding ==
    [][ (call.op = "decode" /\ call'.results # None) =>
          LET es == EntriesOfFrame
              raw == call.data.signals
              out == call'.results[1]
              held == {i \in 1..Len(es) : raw[es[i].signal_name] # None}
          IN /\ call'.signals_by_address = call.signals_by_address
             /\ (es = <<>> \/ call.data.raises) => out = EmptyMap
             /\ (es # <<>> /\ ~call.data.raises) =>
                   /\ DOMAIN out = {es[i].key : i \in held}
                   /\ \A i \in held :
                         LET v == raw[es[i].signal_name][1] * es[i].scale + es[i].offset
                         IN IF es[i].key_total = 1
                            THEN ~out[es[i].key].is_list /\ out[es[i].key].value = v
                            ELSE /\ out[es[i].key].is_list
                                 /\ Len(out[es[i].key].slots) = es[i].key_total
                                 /\ out[es[i].key].slots[es[i].key_index + 1] = Some(v)
                   /\ \A k \in DOMAIN out :
                         out[k].is_list =>
                            \A slot \in 1..Len(out[k].slots) :
                               (\A i \in held : es[i].key = k => es[i].key_index + 1 # slot)
                                  => out[k].slots[slot] = None ]_vars

\* a frame of bus 0 at an address bound both for bus 0 and for any bus is
\* decoded with the binding of bus 0, to a scaled and shifted value
C32_Witness ==
    /\ call.op = "decode"
    /\ call.results # None
    /\ call.source = 0 /\ call.address = 1
    /\ DOMAIN call.signals_by_address = DOMAIN AllBindings
    /\ call.data.signals["ODO"] = Some(7) /\ call.data.signals["TQ"] = Some(7)
    /\ DOMAIN call.results[1] = {"odometer"}
    /\ call.results[1]["odometer"].value = 17

-----------------------------------------------------------------------------
(* _combine_signal_list: the bit mask of a list of decoded elements *)

MaxSlots == 3

\* the decoded elements: absent, or a number
Elements == {None} \cup {Some(r) : r \in {0, 1, 7}}

\* what `decoded_signals.get('cruise_state')` yields: a list of elements, or
\* a single element (None when the key is missing)
SignalValues ==
    {[is_list |-> FALSE, value |-> e, slots |-> <<>>] : e \in Elements}
      \cup UNION {{[is_list |-> TRUE, value |-> None, slots |-> q] : q \in [1..n -> Elements]} :
                    n \in 0..MaxSlots}

RECURSIVE Pow2(_)
Pow2(n) == IF n = 0 THEN 1 ELSE 2 * Pow2(n - 1)

\* `mask |= 1 << idx`
BitOr(mask, idx) == IF (mask \div Pow2(idx)) % 2 = 1 THEN mask ELSE mask + Pow2(idx)

\* every element that is present counts as active
ElementActiveIfPresent(element) == TRUE

\* `float(element) != 0.0`, of an element that is not None
ElementActive(element) == element[1] # 0

\* the loop of _combine_signal_list from position idx (counted from 0) on:
\* the mask, and whether an element was seen
RECURSIVE CombineFrom(_, _, _, _)
CombineFrom(slots, idx, mask, any_seen) ==
    IF idx >= Len(slots) THEN [mask |-> mask, any_seen |-> any_seen]
    ELSE IF slots[idx + 1] = None THEN CombineFrom(slots, idx + 1, mask, any_seen)
    ELSE CombineFrom(slots, idx + 1,
                     IF ElementActive(slots[idx + 1]) THEN BitOr(mask, idx) ELSE mask,
                     TRUE)

combine_signal_list(values) ==
    IF ~values.is_list THEN values.value
    ELSE LET r == CombineFrom(values.slots, 0, 0, FALSE)
         IN IF ~r.any_seen THEN None ELSE Some(r.mask)

\* SpecCombine combines one value
InitCombine ==
    /\ InitDrive
    /\ call \in {[op |-> "combine", values |-> v, done |-> FALSE, mask |-> None] :
                   v \in SignalValues}

CombineSignal ==
    /\ call.op = "combine"
    /\ ~call.done
    /\ call' = [call EXCEPT !.done = TRUE, !.mask = combine_signal_list(call.values)]
    /\ UNCHANGED <<pc, segIdx, clock, drive_date, drive_stats, engaged_distance,
                   last_odo, currently_engaged, engagement_state_changes, interventions,
                   total_steer_interventions, last_engagement_state, pending_reengagement,
                   seg, result, ctrlHist, odoHist, lastChange, lastEntry, canCount,
                   carHist, ev>>

NextCombine == CombineSignal

SpecCombine == InitCombine /\ [][NextCombine]_vars

\* C33: of a list, _combine_signal_list returns null when every element is
\* absent, and otherwise the mask whose bit i is set if and only if element i
\* is present and not zero, no other bit being set; a value that is not a
\* list is returned as it is.
C33_MaskOfPresentNonZero ==
    (call.op = "combine" /\ call.done) =>
        LET v == call.values IN
        /\ ~v.is_list => call.mask = v.value
        /\ v.is_list =>
              /\ call.mask = None <=> \A i \in 1..Len(v.slots) : v.slots[i] = None
              /\ call.mask # None =>
                    /\ call.mask[1] \in 0..(Pow2(Len(v.slots)) - 1)
                    /\ \A i \in 1..Len(v.slots) :
                          ((call.mask[1] \div Pow2(i - 1)) % 2 = 1)
                             <=> (v.slots[i] # None /\ v.slots[i][1] # 0)

\* a list with an absent element between two non-zero ones gives bits 0 and 2
C33_Witness ==
    /\ call.op = "combine" /\ call.done
    /\ call.values.is_list
    /\ call.values.slots = <<Some(7), None, Some(1)>>
    /\ call.mask = Some(5)

-----------------------------------------------------------------------------
(* MovingAverageFilter: a filter of window WINDOW_SIZE fed sample by sample *)

MaxUpdates == 12
FilterSamples == {-40, 60}

\* SpecFilter updates one filter; call.samples is the history of its samples
InitFilter ==
    /\ InitDrive
    /\ call = [op |-> "filter", values |-> <<>>, samples |-> <<>>, mean |-> None]

FilterUpdate(val) ==
    /\ call.op = "filter"
    /\ Len(call.samples) < MaxUpdates
    /\ call' = [call EXCEPT !.values = FilterValues(call.values, val),
                            !.samples = Append(@, val),
                            !.mean = Some(FilterMean(FilterValues(call.values, val)))]
    /\ UNCHANGED <<pc, segIdx, clock, drive_date, drive_stats, engaged_distance,
                   last_odo, currently_engaged, engagement_state_changes, interventions,
                   total_steer_interventions, last_engagement_state, pending_reengagement,
                   seg, result, ctrlHist, odoHist, lastChange, lastEntry, canCount,
                   carHist, ev>>

NextFilter == \E v \in FilterSamples : FilterUpdate(v)

SpecFilter == InitFilter /\ [][NextFilter]_vars

\* the last min(k, n) of the k samples q
LastSamples(q, n) ==
    SubSeq(q, (IF Len(q) > n THEN Len(q) - n ELSE 0) + 1, Len(q))

\* C34: after k updates a filter of window N holds the last min(k, N)
\* samples in the order of their arrival, never more than N, and update
\* returned the mean of exactly those (their sum over their number); the two
\* torque filters of a segment start empty, with no filtered value.
C34_FilterHoldsLastSamples ==
    /\ \A s \in Streams :
          /\ SegmentInit(s).filter_mdps = <<>> /\ SegmentInit(s).filter_eps = <<>>
          /\ SegmentInit(s).filtered_mdps = None /\ SegmentInit(s).filtered_eps = None
    /\ call.op = "filter" =>
          /\ call.values = LastSamples(call.samples, WINDOW_SIZE)
          /\ Len(call.values) <= WINDOW_SIZE
          /\ call.samples # <<>> =>
                call.mean = Some(<<SeqSum(LastSamples(call.samples, WINDOW_SIZE)),
                                   Len(LastSamples(call.samples, WINDOW_SIZE))>>)

\* twelve samples went in and the two oldest, which differ from the rest,
\* are gone from the window and from the mean
C34_Witness ==
    /\ call.op = "filter"
    /\ Len(call.samples) = WINDOW_SIZE + 2
    /\ call.samples[1] = 60 /\ call.samples[2] = 60
    /\ call.values = [i \in 1..WINDOW_SIZE |-> -40]
    /\ call.mean = Some(<<-40 * WINDOW_SIZE, WINDOW_SIZE>>)

-----------------------------------------------------------------------------
(* The reported percentages *)

MaxTimePct == 2
MaxCtrlPct == 2
MaxCarPct == 2
MaxOdoPct == 2

DtsPct == {0, 1}
\* 100.00 km and 100.25 km
OdoPct == {2000, 2005}
SpeedsPct == {200}

\* SpecPct feeds one segment of controlsState and carState samples and
\* odometer frames
NextPct ==
    \/ segIdx = 0 /\ SegmentBegin("complete")
    \/ \E now \in Times(DtsPct, MaxTimePct), a \in BOOLEAN :
          Len(ctrlHist) < MaxCtrlPct /\ ControlsState(now, a)
    \/ \E now \in Times(DtsPct, MaxTimePct), v \in SpeedsPct :
          carHist.count < MaxCarPct /\ CarState(now, v)
    \/ \E now \in Times(DtsPct, MaxTimePct), o \in OdoPct :
          Len(odoHist) < MaxOdoPct /\ CanFrame(now, Some(o), None, None, None)
    \/ SegmentEnd
    \/ Finalize

SpecPct == Init /\ [][NextPct]_vars

\* `(data['engaged_time'] / data['time'] * 100) if data['time'] > 0 else
\* None`, rounded to two decimals, in hundredths of a percent
BucketEngagementPct(data) ==
    IF data.time > 0 THEN Some(Pct(data.engaged_time, data.time)) ELSE None

\* a percentage in hundredths of a percent is between 0 and 100
InPercentRange(p) == 0 <= p /\ p <= 10000

\* C35: every reported engagement percentage of a drive is between 0 and 100
\* when it is not null: engagement_pct, drive_time_engagement_pct,
\* engagement_pct_odo and the engagement_pct of every speed bucket.
C35_PercentagesInRange ==
    result # None =>
        /\ InPercentRange(result[1].engagement_pct)
        /\ InPercentRange(result[1].drive_time_engagement_pct)
        /\ result[1].engagement_pct_odo # None =>
              InPercentRange(result[1].engagement_pct_odo[1])
        /\ \A k \in BucketKeys :
              BucketEngagementPct(result[1].speed_buckets[k]) # None =>
                 InPercentRange(BucketEngagementPct(result[1].speed_buckets[k])[1])

-----------------------------------------------------------------------------
(* find_local_rlog_files: the log files of the segment directories of one  *)
(* drive.  A file name is a sequence of characters; a file path is the     *)
(* directory (as in SegmentDir) and the file name.                         *)

MaxSegmentDirs == 2

Chars(name) ==
    CASE name = "rlog" -> <<"r", "l", "o", "g">>
      [] name = "rlog.bz2" -> <<"r", "l", "o", "g", ".", "b", "z", "2">>
      [] name = "rlog.zst" -> <<"r", "l", "o", "g", ".", "z", "s", "t">>
      [] name = "qlog.bz2" -> <<"q", "l", "o", "g", ".", "b", "z", "2">>

FileNames == {Chars("rlog"), Chars("rlog.bz2"), Chars("rlog.zst"), Chars("qlog.bz2")}

StartsWith(s, prefix) == Len(s) >= Len(prefix) /\ SubSeq(s, 1, Len(prefix)) = prefix
EndsWith(s, suffix) ==
    Len(s) >= Len(suffix) /\ SubSeq(s, Len(s) - Len(suffix) + 1, Len(s)) = suffix
HasDot(s) == \E i \in 1..Len(s) : s[i] = "."

\* a file is taken whatever else its directory holds
IsRlogFile(file) ==
    StartsWith(file, Chars("rlog")) /\ (EndsWith(file, <<".", "b", "z", "2">>) \/ ~HasDot(file))

\* the listings of the drive's directories: which files each segment
\* directory holds
Listings ==
    UNION {[1..n -> SUBSET FileNames] : n \in 0..MaxSegmentDirs}

\* set(drives[drive_name]): the paths found, each once
FoundPaths(listing) ==
    {[dir |-> SegmentDir(p[1] - 1), file |-> p[2]] :
        p \in {r \in (DOMAIN listing) \X FileNames :
                 r[2] \in listing[r[1]] /\ IsRlogFile(r[2])}}

\* the orders in which list(set(..)) may hold the paths
Orderings(paths) ==
    {q \in [1..Cardinality(paths) -> paths] : \A i, j \in DOMAIN q : i # j => q[i] # q[j]}

\* sorted(.., key=extract_segment_number) of file paths
RECURSIVE sorted_paths(_)
sorted_paths(files) ==
    IF files = <<>> THEN <<>>
    ELSE LET x == files[Len(files)]
             q == sorted_paths(SubSeq(files, 1, Len(files) - 1))
             n == Cardinality({i \in 1..Len(q) :
                                 extract_segment_number(q[i].dir)
                                    <= extract_segment_number(x.dir)})
         IN SubSeq(q, 1, n) \o <<x>> \o SubSeq(q, n + 1, Len(q))


\* find_local_rlog_files for a drive with the given directory listing, the
\* list held in the order `order` before it is sorted
find_local_rlog_files(order) == sorted_paths(order)

InitFind ==
    /\ InitDrive
    /\ \E listing \in Listings :
          call = [op |-> "find_local_rlog_files", listing |-> listing,
                  rlog_files |-> None, rlog_files_sorted |-> None]

\* find_local_rlog_files builds the list, process_drive_offline sorts it
\* again and reads every file of it as one segment
FindFiles ==
    /\ call.op = "find_local_rlog_files"
    /\ call.rlog_files = None
    /\ \E order \in Orderings(FoundPaths(call.listing)) :
          LET files == find_local_rlog_files(order)
          IN call' = [call EXCEPT !.rlog_files = <<files>>,
                                  !.rlog_files_sorted = <<sorted_paths(files)>>]
    /\ UNCHANGED <<pc, segIdx, clock, drive_date, drive_stats, engaged_distance,
                   last_odo, currently_engaged, engagement_state_changes,
                   interventions, total_steer_interventions, last_engagement_state,
                   pending_reengagement, seg, result, ctrlHist, odoHist, lastChange,
                   lastEntry, canCount, carHist, ev>>

NextFind == FindFiles

SpecFind == InitFind /\ [][NextFind]_vars

\* C36: the list of log files that find_local_rlog_files builds and
\* process_drive_offline consumes never holds two files of the same segment
\* directory, so every segment contributes at most once.
C36_OneFilePerSegment ==
    (call.op = "find_local_rlog_files" /\ call.rlog_files_sorted # None)
        => LET files == call.rlog_files_sorted[1]
           IN \A i, j \in DOMAIN files :
                 i # j => files[i].dir # files[j].dir

-----------------------------------------------------------------------------
(* The offline run of main: the drives found locally for the selected      *)
(* dongles are processed and upserted, then the store is written.          *)

\* the dongle lists of a run
SelectedDongles == {<<"dev1">>, <<"dev2">>, <<"dev1", "dev2">>}

KeyOf(e) == <<e.device_id, e.drive>>

\* existing_keys of line 924
ExistingKeys(engagement_db) == {KeyOf(engagement_db[i]) : i \in 1..Len(engagement_db)}

\* every drive is processed, in the store or not
SkipsDriveNever(reprocess, device_id, drive_name, existing_keys) == FALSE

\* `not args.reprocess and (device_id, drive_name) in existing_keys`
SkipsDrive(reprocess, device_id, drive_name, existing_keys) ==
    ~reprocess /\ <<device_id, drive_name>> \in existing_keys

\* the program has loaded the store from its file and selected the dongles
InitRun ==
    /\ InitDrive
    /\ \E db \in Stores, reprocess \in BOOLEAN, dongles \in SelectedDongles :
          call = [op |-> "offline_run", at |-> "dongle", file |-> db, before |-> db,
                  engagement_db |-> db, engagement_db_modified |-> FALSE,
                  reprocess |-> reprocess, selected_dongles |-> dongles, dongle |-> 1,
                  local_drives |-> {}, existing_keys |-> {}, processed |-> {},
                  skipped |-> {}]

\* the next dongle: its local drives are found, existing_keys is taken from
\* the store; without local drives the dongle is passed over
BeginDongle(local_drives) ==
    /\ call.op = "offline_run"
    /\ call.at = "dongle"
    /\ call.dongle <= Len(call.selected_dongles)
    /\ call' = IF local_drives = {}
               THEN [call EXCEPT !.dongle = @ + 1]
               ELSE [call EXCEPT !.at = "drives",
                                 !.local_drives = local_drives,
                                 !.existing_keys = ExistingKeys(call.engagement_db)]
    /\ UNCHANGED <<pc, segIdx, clock, drive_date, drive_stats, engaged_distance,
                   last_odo, currently_engaged, engagement_state_changes, interventions,
                   total_steer_interventions, last_engagement_state, pending_reengagement,
                   seg, result, ctrlHist, odoHist, lastChange, lastEntry, canCount,
                   carHist, ev>>

\* one turn of the loop over the local drives: the drive is skipped, or
\* processed with the result total_time and upserted
OfflineDrive(drive_name, total_time) ==
    /\ call.op = "offline_run"
    /\ call.at = "drives"
    /\ drive_name \in call.local_drives
    /\ LET device_id == call.selected_dongles[call.dongle]
           db_entry == [device_id |-> device_id, drive |-> drive_name,
                        total_time |-> total_time]
           rest == call.local_drives \ {drive_name}
           after == [call EXCEPT !.local_drives = rest,
                                 !.at = IF rest = {} THEN "dongle" ELSE "drives",
                                 !.dongle = IF rest = {} THEN @ + 1 ELSE @]
       IN call' = IF SkipsDrive(call.reprocess, device_id, drive_name, call.existing_keys)
                  THEN [after EXCEPT !.skipped = @ \cup {<<device_id, drive_name>>}]
                  ELSE [after EXCEPT
                          !.engagement_db = upsert_drive_to_db(call.engagement_db, db_entry),
                          !.engagement_db_modified = TRUE,
                          !.processed = @ \cup {db_entry}]
    /\ UNCHANGED <<pc, segIdx, clock, drive_date, drive_stats, engaged_distance,
                   last_odo, currently_engaged, engagement_state_changes, interventions,
                   total_steer_interventions, last_engagement_state, pending_reengagement,
                   seg, result, ctrlHist, odoHist, lastChange, lastEntry, canCount,
                   carHist, ev>>

\* the end of the run: a modified store is written to its file
SaveStore ==
    /\ call.op = "offline_run"
    /\ call.at = "dongle"
    /\ call.dongle > Len(call.selected_dongles)
    /\ call' = [call EXCEPT !.at = "done",
                            !.file = IF call.engagement_db_modified
                                     THEN call.engagement_db ELSE @]
    /\ UNCHANGED <<pc, segIdx, clock, drive_date, drive_stats, engaged_distance,
                   last_odo, currently_engaged, engagement_state_changes, interventions,
                   total_steer_interventions, last_engagement_state, pending_reengagement,
                   seg, result, ctrlHist, odoHist, lastChange, lastEntry, canCount,
                   carHist, ev>>

NextRun ==
    \/ \E local_drives \in SUBSET DriveNames : BeginDongle(local_drives)
    \/ \E drive_name \in DriveNames, total_time \in Payloads :
          OfflineDrive(drive_name, total_time)
    \/ SaveStore

SpecRun == InitRun /\ [][NextRun]_vars

\* the entries of the store that have the key k
EntriesWithKey(db, k) == {i \in 1..Len(db) : KeyOf(db[i]) = k}


\* C37: at the end of an offline run without --reprocess, no drive whose key
\* was in the store has been processed and its entry in the written store is
\* the one it had; with --reprocess, a drive of the store that was found
\* locally has been processed, its entry is the new one, and the written
\* store holds one entry with its key.
C37_StoredDriveSkippedOrReplaced ==
    (call.op = "offline_run" /\ call.at = "done") =>
        /\ ~call.reprocess =>
              \A i \in 1..Len(call.before) :
                 /\ \A e \in call.processed : ~SameKey(e, call.before[i])
                 /\ EntriesWithKey(call.file, KeyOf(call.before[i])) = {i}
                 /\ call.file[i] = call.before[i]
        /\ call.reprocess =>
              /\ call.skipped = {}
              /\ \A e \in call.processed :
                    KeyOf(e) \in ExistingKeys(call.before) =>
                       \E i \in 1..Len(call.file) :
                          /\ EntriesWithKey(call.file, KeyOf(e)) = {i}
                          /\ call.file[i] = e

\* a run without --reprocess skipped a stored drive and added another one; the
\* written store holds the old entry and the new one
C37_Witness ==
    /\ call.op = "offline_run"
    /\ call.at = "done"
    /\ ~call.reprocess
    /\ call.skipped # {}
    /\ call.processed # {}
    /\ Len(call.file) = Len(call.before) + 1
    /\ call.file[1] = call.before[1]

-----------------------------------------------------------------------------
(* EngagementRepository (src/server/data.py): threads call all_entries      *)
(* while the database file is written and removed.  A content is named by   *)
(* the number of the modification that wrote it; the content of a missing   *)
(* file and of the empty cache is NoEntries.                                 *)

MaxModifications == 3
MaxRepoCalls == 3

Threads == {"t1", "t2"}
NoEntries == 0

\* the database file: missing, or a content and its st_mtime
FileStates(n) == {[exists |-> FALSE, content |-> NoEntries, st_mtime |-> 0]}
                   \cup {[exists |-> TRUE, content |-> n, st_mtime |-> n]}

\* `self.db_path.stat().st_mtime`, None for a missing file
Stat(file) == IF file.exists THEN Some(file.st_mtime) ELSE None

\* _load_from_disk
_load_from_disk(file) == IF file.exists THEN file.content ELSE NoEntries

IdleThread == [at |-> "idle", mtime |-> None, started |-> 0, returned |-> None]

\* __init__, with the file as it is then
InitRepo ==
    /\ InitDrive
    /\ \E file \in FileStates(1) :
          call = [op |-> "all_entries", file |-> file, contents |-> <<file.content>>,
                  _lock |-> None, _entries |-> NoEntries, _mtime |-> None,
                  threads |-> [t \in Threads |-> IdleThread], calls |-> 0]

RepoUnchanged ==
    UNCHANGED <<pc, segIdx, clock, drive_date, drive_stats, engaged_distance,
                last_odo, currently_engaged, engagement_state_changes, interventions,
                total_steer_interventions, last_engagement_state, pending_reengagement,
                seg, result, ctrlHist, odoHist, lastChange, lastEntry, canCount,
                carHist, ev>>

\* another process writes the file (with a later st_mtime) or removes it
ModifyFile(exists) ==
    /\ call.op = "all_entries"
    /\ Len(call.contents) <= MaxModifications
    /\ exists \/ call.file.exists
    /\ LET n == Len(call.contents) + 1
           file == [exists |-> exists, content |-> IF exists THEN n ELSE NoEntries,
                    st_mtime |-> IF exists THEN n ELSE 0]
       IN call' = [call EXCEPT !.file = file, !.contents = Append(@, file.content)]
    /\ RepoUnchanged

\* all_entries is called; _ensure_fresh_cache reads st_mtime, outside the lock
ReadMtime(t) ==
    /\ call.op = "all_entries"
    /\ call.threads[t].at = "idle"
    /\ call.calls < MaxRepoCalls
    /\ call' = [call EXCEPT !.calls = @ + 1,
                            !.threads[t] = [at |-> "stat", mtime |-> Stat(call.file),
                                            started |-> Len(call.contents),
                                            returned |-> None]]
    /\ RepoUnchanged

\* `with self._lock:`
AcquireLock(t) ==
    /\ call.op = "all_entries"
    /\ call.threads[t].at = "stat"
    /\ call._lock = None
    /\ call' = [call EXCEPT !._lock = Some(t), !.threads[t].at = "locked"]
    /\ RepoUnchanged

\* inside the lock: the comparison, the reload, and the release
RefreshCache(t) ==
    /\ call.op = "all_entries"
    /\ call.threads[t].at = "locked"
    /\ call' = IF call.threads[t].mtime # call._mtime
               THEN [call EXCEPT !._entries = _load_from_disk(call.file),
                                 !._mtime = call.threads[t].mtime,
                                 !._lock = None,
                                 !.threads[t].at = "fresh"]
               ELSE [call EXCEPT !._lock = None, !.threads[t].at = "fresh"]
    /\ RepoUnchanged

\* `return list(self._entries)`
ReturnEntries(t) ==
    /\ call.op = "all_entries"
    /\ call.threads[t].at = "fresh"
    /\ call' = [call EXCEPT !.threads[t].at = "idle",
                            !.threads[t].returned = Some(call._entries)]
    /\ RepoUnchanged

NextRepo ==
    \/ \E exists \in BOOLEAN : ModifyFile(exists)
    \/ \E t \in Threads : ReadMtime(t)
    \/ \E t \in Threads : AcquireLock(t)
    \/ \E t \in Threads : RefreshCache(t)
    \/ \E t \in Threads : ReturnEntries(t)

SpecRepo == InitRepo /\ [][NextRepo]_vars

\* C38: all_entries never returns a content that the file had only before
\* the call started: what a call returns is a content the file has had since
\* the call started, and so NoEntries when the file was missing throughout.
C38_NeverStaleEntries ==
    call.op = "all_entries" =>
        \A t \in Threads :
           call.threads[t].returned # None =>
              \E g \in call.threads[t].started..Len(call.contents) :
                 call.contents[g] = call.threads[t].returned[1]

-----------------------------------------------------------------------------
(* The download of the remote log files of one host, with retries          *)

SFTP_MAX_RETRIES == 3
MaxRemoteFiles == 2

RemoteFiles == 1..MaxRemoteFiles

\* the local copy of a remote file: none, the whole file, or what a failed
\* transfer left of it
LocalStates == {"absent", "whole", "partial"}

\* before the run a local file is a whole copy or absent
InitDownload ==
    /\ InitDrive
    /\ \E local \in [RemoteFiles -> {"absent", "whole"}] :
          call = [op |-> "download", at |-> "file", file |-> 1, attempt |-> 0,
                  local |-> local, existed |-> {f \in RemoteFiles : local[f] = "whole"},
                  attempts |-> [f \in RemoteFiles |-> 0], succeeded |-> {},
                  downloaded_rlog_files |-> <<>>]

DownloadUnchanged ==
    UNCHANGED <<pc, segIdx, clock, drive_date, drive_stats, engaged_distance,
                last_odo, currently_engaged, engagement_state_changes, interventions,
                total_steer_interventions, last_engagement_state, pending_reengagement,
                seg, result, ctrlHist, odoHist, lastChange, lastEntry, canCount,
                carHist, ev>>

\* the next file of new_rlog_files: one with a local copy is taken as it is
NextFile ==
    /\ call.op = "download"
    /\ call.at = "file"
    /\ call.file <= MaxRemoteFiles
    /\ call' = IF call.local[call.file] # "absent"
               THEN [call EXCEPT !.downloaded_rlog_files = Append(@, call.file),
                                 !.file = @ + 1]
               ELSE [call EXCEPT !.at = "attempt", !.attempt = 1]
    /\ DownloadUnchanged

\* one turn of the retry loop.  sftp_client.get succeeds, or raises and
\* leaves `left` of the local file; os.remove of what is left succeeds or
\* raises (and is passed over); reopen_sftp_client succeeds or raises, which
\* ends the work on this host
DownloadAttempt(success, left, removed, reopened) ==
    /\ call.op = "download"
    /\ call.at = "attempt"
    /\ LET f == call.file
           tried == [call EXCEPT !.attempts[f] = @ + 1]
           after == IF left = "partial" /\ ~removed THEN "partial" ELSE "absent"
       IN call' =
            IF success
            THEN [tried EXCEPT !.local[f] = "whole",
                               !.succeeded = @ \cup {f},
                               !.downloaded_rlog_files = Append(@, f),
                               !.at = "file", !.file = @ + 1, !.attempt = 0]
            ELSE IF call.attempt = SFTP_MAX_RETRIES
            THEN [tried EXCEPT !.local[f] = after,
                               !.at = "file", !.file = @ + 1, !.attempt = 0]
            ELSE IF reopened
            THEN [tried EXCEPT !.local[f] = after, !.attempt = @ + 1]
            ELSE [tried EXCEPT !.local[f] = after, !.at = "aborted"]
    /\ DownloadUnchanged

\* every file of new_rlog_files has been dealt with
DownloadsDone ==
    /\ call.op = "download"
    /\ call.at = "file"
    /\ call.file > MaxRemoteFiles
    /\ call' = [call EXCEPT !.at = "done"]
    /\ DownloadUnchanged

NextDownload ==
    \/ NextFile
    \/ \E success \in BOOLEAN, left \in {"absent", "partial"},
          removed \in BOOLEAN, reopened \in BOOLEAN :
          DownloadAttempt(success, left, removed, reopened)
    \/ DownloadsDone

SpecDownload == InitDownload /\ [][NextDownload]_vars

\* the loop is not starved: a step that can be taken is taken
SpecDownloadLive == SpecDownload /\ WF_vars(NextDownload)

\* the loop over the files ends, by its last file or by an exception
DownloadTerminates == <>(call.at \in {"done", "aborted"})

\* no file is attempted more than SFTP_MAX_RETRIES times, and a file is in
\* the downloaded list only after a successful attempt or with a local copy
\* from before the run
DownloadBounded ==
    \A f \in RemoteFiles :
       /\ call.attempts[f] <= SFTP_MAX_RETRIES
       /\ (\E i \in 1..Len(call.downloaded_rlog_files) : call.downloaded_rlog_files[i] = f)
             => (f \in call.succeeded \/ f \in call.existed)

\* C39: each remote file is attempted at most SFTP_MAX_RETRIES times; a
\* file is in the downloaded list only if an attempt succeeded or a local
\* copy existed before the first attempt; and after a failed attempt nothing
\* of the local file is left.
C39_BoundedRetryLeavesNoPartialFile ==
    call.op = "download" =>
        /\ DownloadBounded
        /\ \A f \in RemoteFiles : call.local[f] # "partial"

-----------------------------------------------------------------------------
(* The profile configurator (src/profile_configurator.py): the main loop   *)
(* over key presses, as far as the profiles, the dirty flag and the end of  *)
(* the session are concerned.                                               *)

ProfileNames == {"p1", "p2"}

\* the profile lists of a configuration file
ProfileOrders ==
    UNION {{q \in [1..n -> ProfileNames] : \A i, j \in 1..n : i # j => q[i] # q[j]} :
              n \in 0..Cardinality(ProfileNames)}

Min(a, b) == IF a < b THEN a ELSE b
Max(a, b) == IF a > b THEN a ELSE b

\* AppState.ensure_selection; positions are counted from 0
ensure_selection(profile_order, selected_index) ==
    IF profile_order = <<>> THEN 0
    ELSE Max(0, Min(selected_index, Len(profile_order) - 1))

\* AppState.selected_profile_name
selected_profile_name(profile_order, selected_index) ==
    IF profile_order = <<>> THEN None
    ELSE IF 0 <= selected_index /\ selected_index < Len(profile_order)
         THEN Some(profile_order[selected_index + 1])
         ELSE None

\* the list without the name
Without(profile_order, name) ==
    LET F[i \in 0..Len(profile_order)] ==
          IF i = 0 THEN <<>>
          ELSE IF profile_order[i] = name THEN F[i - 1]
               ELSE Append(F[i - 1], profile_order[i])
    IN F[Len(profile_order)]

\* `if state.dirty and state.profile_order:` of the quit key
QuitAsks(dirty, profile_order) == dirty /\ profile_order # <<>>

\* main up to its loop: the configuration is loaded, nothing is unsaved
InitConfigurator ==
    /\ InitDrive
    /\ \E order \in ProfileOrders, default \in ProfileNames \cup {""} :
          call = [op |-> "configurator", at |-> "loop", profile_order |-> order,
                  default_profile |-> default, selected_index |-> 0, dirty |-> FALSE,
                  saved |-> [profile_order |-> order, default_profile |-> default],
                  quit_dirty |-> FALSE, asked |-> FALSE]

ConfiguratorUnchanged ==
    UNCHANGED <<pc, segIdx, clock, drive_date, drive_stats, engaged_distance,
                last_odo, currently_engaged, engagement_state_changes, interventions,
                total_steer_interventions, last_engagement_state, pending_reengagement,
                seg, result, ctrlHist, odoHist, lastChange, lastEntry, canCount,
                carHist, ev>>

InLoop == call.op = "configurator" /\ call.at = "loop"

\* key q: with QuitAsks the user is asked to save, and if not, to discard;
\* the answer no to both cancels the quit
KeyQuit(save, discard) ==
    /\ InLoop
    /\ LET asks == QuitAsks(call.dirty, call.profile_order)
           ended == [call EXCEPT !.at = "ended", !.quit_dirty = call.dirty,
                                 !.asked = asks]
       IN call' =
            IF ~asks THEN ended
            ELSE IF save
            THEN [ended EXCEPT !.dirty = FALSE,
                               !.saved = [profile_order |-> call.profile_order,
                                          default_profile |-> call.default_profile]]
            ELSE IF discard THEN ended
            ELSE call
    /\ ConfiguratorUnchanged

\* keys up and down (by = -1 and 1)
KeyMove(by) ==
    /\ InLoop
    /\ call' = IF call.profile_order = <<>> THEN call
               ELSE [call EXCEPT !.selected_index = (@ + by) % Len(call.profile_order)]
    /\ ConfiguratorUnchanged

\* key a: add_profile; an empty or known name changes nothing
KeyAdd(name) ==
    /\ InLoop
    /\ call' = IF name = None \/ (\E i \in 1..Len(call.profile_order) :
                                     call.profile_order[i] = name[1])
               THEN call
               ELSE [call EXCEPT !.profile_order = Append(@, name[1]),
                                 !.selected_index = Len(call.profile_order),
                                 !.dirty = TRUE]
    /\ ConfiguratorUnchanged

\* key d: delete_profile, with the answer to its confirmation
KeyDelete(confirmed) ==
    /\ InLoop
    /\ LET name == selected_profile_name(call.profile_order, call.selected_index)
       IN call' =
            IF name = None \/ ~confirmed THEN call
            ELSE LET rest == Without(call.profile_order, name[1])
                 IN [call EXCEPT !.profile_order = rest,
                                 !.default_profile = IF @ = name[1] THEN "" ELSE @,
                                 !.dirty = TRUE,
                                 !.selected_index = ensure_selection(rest, @)]
    /\ ConfiguratorUnchanged

\* key s: set_default_profile
KeySetDefault ==
    /\ InLoop
    /\ LET name == selected_profile_name(call.profile_order, call.selected_index)
       IN call' = IF name = None THEN call
                  ELSE [call EXCEPT !.default_profile = name[1], !.dirty = TRUE]
    /\ ConfiguratorUnchanged

\* keys o and e: edit_profile_details and edit_signals, which change the
\* selected profile or are cancelled
KeyEdit(changed) ==
    /\ InLoop
    /\ LET name == selected_profile_name(call.profile_order, call.selected_index)
       IN call' = IF name = None \/ ~changed THEN call
                  ELSE [call EXCEPT !.dirty = TRUE]
    /\ ConfiguratorUnchanged

\* key w: save_config
KeyWrite ==
    /\ InLoop
    /\ call' = [call EXCEPT !.dirty = FALSE,
                            !.saved = [profile_order |-> call.profile_order,
                                       default_profile |-> call.default_profile]]
    /\ ConfiguratorUnchanged

NextConfigurator ==
    \/ \E save \in BOOLEAN, discard \in BOOLEAN : KeyQuit(save, discard)
    \/ \E by \in {-1, 1} : KeyMove(by)
    \/ \E name \in {None} \cup {Some(n) : n \in ProfileNames} : KeyAdd(name)
    \/ \E confirmed \in BOOLEAN : KeyDelete(confirmed)
    \/ KeySetDefault
    \/ \E changed \in BOOLEAN : KeyEdit(changed)
    \/ KeyWrite

SpecConfigurator == InitConfigurator /\ [][NextConfigurator]_vars

\* C40: a session that ended by the quit key with unsaved changes ended only
\* after the user was asked whether to save or discard them, also when no
\* profile is left.
C40_QuitAsksBeforeLosingChanges ==
    (call.op = "configurator" /\ call.at = "ended" /\ call.quit_dirty) => call.asked

=============================================================================
